---------------------------- MODULE Spec2Model ----------------------------
(***************************************************************************)
(* Model of the enrichment pipeline, the image fallback pipeline and the     *)
(* operator session of src/bot.js.                                         *)
(*                                                                         *)
(* Strings are sequences of atomic chunks ("tokens"): a word, one          *)
(* whitespace character (" " or "\n") or one markdown emphasis character.  *)
(* A keyword regular expression matches a string when one of its tokens    *)
(* is the keyword up to case.  JavaScript's undefined/null is Undef.       *)
(***************************************************************************)
EXTENDS Integers, Sequences, FiniteSets, TLC

VARIABLES
  \* ---- one enrichWithAI call (src/bot.js 362-450)
  textHints,      \* the user text handed to enrichWithAI
  providerOrder,  \* the resolved provider order
  combinedLen,    \* combinedSite.length, the size of the evidence text
  tpc,            \* position of the call: idle / run / hf / detail / done / rejected
  pIdx,           \* index into providerOrder of the provider being tried
  attempt,        \* loop variable i of tryWithRetries
  calls,          \* adapter invocations so far: [p |-> provider, ok |-> got JSON]
  lastAnswer,     \* the kind of value the last invocation returned
  sleeps,         \* the backoff waits so far
  json,           \* the structured output obtained, or Null
  provider,       \* the provider that filled json
  detailCalls,    \* number of detail pass requests issued
  result,         \* the object enrichWithAI resolved to
  \* ---- one tryBrandImages or generateBackgroundWithOrder call (src/bot.js 649-763)
  ifn,            \* the function running
  hasDomain,      \* resolveBrandDomain(prod.name) is not null
  order,          \* the order argument of generateBackgroundWithOrder
  ipc,            \* position of the call
  iIdx,           \* index of the generative provider being tried
  iAttempt,       \* loop variable i of tryWithRetries
  tiers,          \* the tiers attempted so far, in order
  adapterCalls,   \* image adapter invocations: [p |-> provider, out |-> outcome,
                  \* soft |-> the Cloudflare backend rejected it softly]
  rehosts,        \* rehostToSupabase calls: [src |-> tier, ok |-> it returned]
  card,           \* what became of the procedural card
  iresult,        \* the value the call returned
  \* ---- the operator's chat with the bot (src/bot.js 934-1473)
  session,        \* ctx.session
  reply,          \* the last message the bot sent
  db,             \* the database requests of the last handler, in order
  \* ---- calls of the text adapters (src/bot.js 216-353)
  adapter,        \* the adapter running, or "none"
  apc,            \* position of the call
  backend,        \* what the backend did with the last request
  aresult,        \* the outcome of the call: Ret(value) or Thrown
  hfKey,          \* HF_KEY is set
  geminiKeys,     \* GEMINI_KEYS.length
  geminiIndex,    \* _geminiIndex, modulo GEMINI_KEYS.length
  gi,             \* loop variable i of geminiTextJSON
  keysUsed,       \* the indices of the keys this call has used, in order
  prevKey,        \* the last key an earlier call of this run used, or -1
  \* ---- one application of a helper function (src/bot.js 184-211, 373-377, 804-850)
  fn,             \* the function applied, or "none"
  args,           \* its arguments
  ret,            \* the value it returned
  \* ---- searchWebForProduct (src/bot.js 804-850), lengths in characters
  wpc,            \* position in searchWebForProduct
  urlsLeft,       \* URLs of the set the page loop has not visited yet
  count,          \* the loop's count of pushed chunks
  chunksLen,      \* length of chunks.join of the chunks pushed so far
  bundle,         \* length of bundle
  wikiUsed,       \* the encyclopedia block was appended
  fetches,        \* fetchWebsiteRaw invocations so far
  steps,          \* per network step: "none", "failed" or "ok"
  \* ---- concurrent calls of geminiTextJSON (src/bot.js 242-291)
  poolSize,       \* GEMINI_KEYS.length
  sharedIndex,    \* _geminiIndex, modulo the pool size
  cpc,            \* per call: "loop", "fetch" or "returned"
  ci,             \* per call: its loop variable i
  ckey,           \* per call: the key of its request in flight
  ctried,         \* per call: the keys it has sent a request with
  cresult,        \* per call: what it returned
  \* ---- provider calls of one pipeline run, from start to completion
  \* ---- (src/bot.js 208, 430-450, 649-685)
  seqFn,          \* "enrichWithAI" or "generateBackgroundWithOrder"
  seqOrder,       \* the provider order of the run
  seqPc,          \* "loop", "awaiting", "fallback" or "done"
  seqIdx,         \* index into the order
  seqAttempt,     \* loop variable i of tryWithRetries
  started,        \* number of adapter calls started so far
  inFlight,       \* the calls started and not yet completed, by their number
  \* ---- save actions of one review processed concurrently (src/bot.js 1398-1437)
  rows,           \* rows of the table with the review's name and price
  sreview,        \* ctx.session.review is not null
  spc,            \* per save: "start", "select", "insert" or "done"
  sfound,         \* per save: what its duplicate lookup gave as existing
  \* ---- the admin and pause middleware and the idle timers (src/bot.js 150-178,
  \* ---- 936-954, 1020-1027)
  timersOn,       \* INACTIVITY_MS > 0
  sessions,       \* per user: "none", or the session's paused field
  idleTimers,     \* the map idleTimers: per user a timer handle, or 0
  pending,        \* the timeouts set and neither cleared nor fired: [id, user]
  timerCount,     \* number of timeouts set so far
  fired,          \* the handle of the timeout that fired last, or 0
  updates,        \* number of updates received so far
  handled         \* the last update: its sender, its kind, and whether next() ran

textVars == <<textHints, providerOrder, combinedLen, tpc, pIdx, attempt,
              calls, lastAnswer, sleeps, json, provider, detailCalls, result>>

imageVars == <<ifn, hasDomain, order, ipc, iIdx, iAttempt, tiers, adapterCalls,
               rehosts, card, iresult>>

sessionVars == <<session, reply, db>>

adapterVars == <<adapter, apc, backend, aresult, hfKey, geminiKeys, geminiIndex, gi,
                 keysUsed, prevKey>>

helperVars == <<fn, args, ret>>

evidenceVars ==
  <<wpc, urlsLeft, count, chunksLen, bundle, wikiUsed, fetches, steps>>

raceVars == <<poolSize, sharedIndex, cpc, ci, ckey, ctried, cresult>>

sequenceVars == <<seqFn, seqOrder, seqPc, seqIdx, seqAttempt, started, inFlight>>

saveVars == <<rows, sreview, spc, sfound>>

gateVars == <<timersOn, sessions, idleTimers, pending, timerCount, fired, updates, handled>>

vars ==
  <<textVars, imageVars, sessionVars, adapterVars, helperVars, evidenceVars,
    raceVars,
    sequenceVars,
    saveVars,
    gateVars>>

nonTextVars ==
  <<imageVars, sessionVars, adapterVars, helperVars, evidenceVars, raceVars,
    sequenceVars,
    saveVars,
    gateVars>>

nonImageVars ==
  <<textVars, sessionVars, adapterVars, helperVars, evidenceVars, raceVars,
    sequenceVars,
    saveVars,
    gateVars>>

nonSessionVars ==
  <<textVars, imageVars, adapterVars, helperVars, evidenceVars, raceVars,
    sequenceVars,
    saveVars,
    gateVars>>

nonAdapterVars ==
  <<textVars, imageVars, sessionVars, helperVars, evidenceVars, raceVars,
    sequenceVars,
    saveVars,
    gateVars>>

nonHelperVars ==
  <<textVars, imageVars, sessionVars, adapterVars, evidenceVars, raceVars,
    sequenceVars,
    saveVars,
    gateVars>>

nonEvidenceVars ==
  <<textVars, imageVars, sessionVars, adapterVars, helperVars, raceVars,
    sequenceVars,
    saveVars,
    gateVars>>

nonRaceVars ==
  <<textVars, imageVars, sessionVars, adapterVars, helperVars, evidenceVars,
    sequenceVars,
    saveVars,
    gateVars>>

nonSequenceVars ==
  <<textVars, imageVars, sessionVars, adapterVars, helperVars, evidenceVars, raceVars,
    saveVars,
    gateVars>>

nonSaveVars ==
  <<textVars, imageVars, sessionVars, adapterVars, helperVars, evidenceVars, raceVars, sequenceVars,
    gateVars>>

nonGateVars ==
  <<textVars, imageVars, sessionVars, adapterVars, helperVars, evidenceVars, raceVars, sequenceVars, saveVars>>

-----------------------------------------------------------------------------
(* Bounds and program constants *)

MaxTextLen == 3

MaxGeminiKeys == 2

MaxCalls == 2

MaxTags == 2

MaxPriceLen == 5

MaxHosts == 3

MaxEnvLen == 4

TEXT_RETRIES == 2

IMAGE_RETRIES == 2

BASE_DELAY == 800

-----------------------------------------------------------------------------
(* JavaScript values *)

Undef == <<"undefined">>

Null == [kind |-> "null"]

Str(w) == <<w>>

\* x || y on strings
Or(x, y) == IF x # Undef /\ x # <<>> THEN x ELSE y

Truthy(x) == x # Undef /\ x # <<>>

WS == {" ", "\n"}

\* the characters of /[*_`~]/; the backquote is written "BACKQUOTE"
MD == {"*", "_", "BACKQUOTE", "~"}

\* case folding of the tokens that take part in keyword matching
Lower(t) ==
  CASE t \in {"OTT", "Ott", "ott"} -> "ott"
    [] t \in {"IPTV", "Iptv", "iptv"} -> "iptv"
    [] t \in {"Product", "product"} -> "product"
    [] t \in {"Download", "download"} -> "download"
    [] t \in {"Spotify", "spotify"} -> "spotify"
    [] t \in {"Music", "music"} -> "music"
    [] t \in {"Plan", "plan"} -> "plan"
    [] t = "N" -> "n"
    [] OTHER -> t

RECURSIVE Concat(_)
Concat(ss) == IF ss = <<>> THEN <<>> ELSE Head(ss) \o Concat(Tail(ss))

\* Array.prototype.join
RECURSIVE Join(_, _)
Join(ss, sep) ==
  IF ss = <<>> THEN <<>>
  ELSE IF Len(ss) = 1 THEN ss[1]
  ELSE ss[1] \o <<sep>> \o Join(Tail(ss), sep)

\* String.prototype.trim
RECURSIVE TrimLeft(_)
TrimLeft(s) == IF s # <<>> /\ Head(s) \in WS THEN TrimLeft(Tail(s)) ELSE s

RECURSIVE TrimRight(_)
TrimRight(s) ==
  IF s # <<>> /\ s[Len(s)] \in WS THEN TrimRight(SubSeq(s, 1, Len(s) - 1)) ELSE s

Trim(s) == TrimRight(TrimLeft(s))

\* length of the maximal whitespace prefix
RECURSIVE WsRun(_)
WsRun(s) == IF s # <<>> /\ Head(s) \in WS THEN 1 + WsRun(Tail(s)) ELSE 0

\* .replace(/\s{2,}/g, SPACE)
RECURSIVE CollapseWs(_)
CollapseWs(s) ==
  IF s = <<>> THEN <<>>
  ELSE IF WsRun(s) >= 2 THEN <<" ">> \o CollapseWs(SubSeq(s, WsRun(s) + 1, Len(s)))
  ELSE <<Head(s)>> \o CollapseWs(Tail(s))

IsMd(t) == t \in MD

NotMd(t) == ~IsMd(t)

sanitizeTextForAI(text) == Trim(CollapseWs(SelectSeq(text, NotMd)))

\* s.split(NEWLINE)[0]
RECURSIVE FirstLine(_)
FirstLine(s) ==
  IF s = <<>> \/ Head(s) = "\n" THEN <<>> ELSE <<Head(s)>> \o FirstLine(Tail(s))


\* s.split(/[;,]/): the pieces between separator tokens
RECURSIVE SplitOn(_, _)
SplitOn(s, seps) ==
  IF \A i \in 1..Len(s) : s[i] \notin seps THEN <<s>>
  ELSE LET k == CHOOSE i \in 1..Len(s) :
                  s[i] \in seps /\ \A j \in 1..(i - 1) : s[j] \notin seps
       IN <<SubSeq(s, 1, k - 1)>> \o SplitOn(SubSeq(s, k + 1, Len(s)), seps)

RECURSIVE MapTrim(_)
MapTrim(ss) == IF ss = <<>> THEN <<>> ELSE <<Trim(Head(ss))>> \o MapTrim(Tail(ss))

NonEmpty(x) == x # <<>>

\* number of characters of a token: whitespace and markdown characters are one
\* character, "sN" stands for a sentence of N characters
CharLen(t) ==
  CASE t = "s100" -> 100
    [] t = "s130" -> 130
    [] t = "s200" -> 200
    [] t \in WS \cup MD \cup {";", ",", "x"} -> 1
    [] OTHER -> 4

\* String.prototype.length
RECURSIVE StrLen(_)
StrLen(s) == IF s = <<>> THEN 0 ELSE CharLen(Head(s)) + StrLen(Tail(s))

\* s.slice(0, n), cut at a token boundary
RECURSIVE Slice(_, _)
Slice(s, n) ==
  IF s = <<>> \/ CharLen(Head(s)) > n THEN <<>>
  ELSE <<Head(s)>> \o Slice(Tail(s), n - CharLen(Head(s)))

-----------------------------------------------------------------------------
(* Provider output: the values a provider's response can parse to *)

NoArray == [isArray |-> FALSE, v |-> Undef]

Arr(items) == [isArray |-> TRUE, v |-> items]

StrVal(s) == [isArray |-> FALSE, v |-> s]

Obj(name, plan, validity, price, description, tags, category, subcategory, features) ==
  [kind |-> "object", truthy |-> TRUE, name |-> name, plan |-> plan,
   validity |-> validity, price |-> price, description |-> description,
   tags |-> tags, category |-> category, subcategory |-> subcategory,
   features |-> features]

\* a JSON value that is not an object: none of its properties is defined
NonObject(kind, truthy) ==
  [kind |-> kind, truthy |-> truthy, name |-> Undef, plan |-> Undef,
   validity |-> Undef, price |-> Undef, description |-> Undef, tags |-> NoArray,
   category |-> Undef, subcategory |-> Undef, features |-> NoArray]

\* the response of Scenario A of the specification
ScenarioA ==
  Obj(<<"Netflix", " ", "Premium">>, <<"1", " ", "Month">>, <<"unknown">>, <<"199">>,
      <<"s200">>, Arr(<< <<"ott">> >>), <<"OTT", " ", "Accounts">>, <<"unknown">>,
      Arr(<< <<"4K", " ", "streaming">> >>))

\* category values a provider may answer: none, an allowed one, free text without
\* and with a category keyword
ProviderCategories ==
  {Undef, <<"Product", " ", "Key">>, <<"Streaming">>, <<"iptv", " ", "box">>}

ProviderSubcategories == {Undef, <<"Music">>}

CategoryObjects ==
  {Obj(<<"x">>, Undef, Undef, Undef, <<"s100">>, StrVal(<<"a", ";", " ", "b">>), c, sc,
       Arr(<< <<"f1">>, <<"f2">>, <<"f3">> >>)) :
     c \in ProviderCategories, sc \in ProviderSubcategories}

\* a response with more features than the 4-6 the prompt asks for, line 371
SevenFeatures ==
  Obj(<<"x">>, Undef, Undef, Undef, <<"s200">>, Arr(<<>>), <<"Streaming">>, Undef,
      Arr(<< <<"f1">>, <<"f2">>, <<"f3">>, <<"f4">>, <<"f5">>, <<"f6">>,
             <<"f7">> >>))

JsonObjects == {ScenarioA, SevenFeatures} \cup CategoryObjects

JsonArrays == {NonObject("array", TRUE)}

JsonPrimitives ==
  {NonObject("string", TRUE), NonObject("number", TRUE), NonObject("boolean", TRUE),
   NonObject("number", FALSE)}

\* JSON.parse of any text
JsonValues == {Null} \cup JsonObjects \cup JsonArrays \cup JsonPrimitives

\* !j
Falsy(j) == j = Null \/ ~j.truthy

-----------------------------------------------------------------------------
(* Pure helpers of src/bot.js *)

CATEGORIES_ALLOWED ==
  << <<"OTT", " ", "Accounts">>, <<"IPTV">>, <<"Product", " ", "Key">>, <<"Download">> >>

AllowedSet == {CATEGORIES_ALLOWED[i] : i \in 1..Len(CATEGORIES_ALLOWED)}

\* new RegExp(word, 'i').test(hay): word occurs in hay, up to case
RegexTestI(word, hay) ==
  \E k \in 0..(Len(hay) - Len(word)) :
    \A i \in 1..Len(word) : Lower(hay[k + i]) = Lower(word[i])

\* c.split(SPACE)[0]
FirstWord(c) == SplitOn(c, {" "})[1]

\* Array.isArray(tags) ? tags.join(SPACE) : tags
TagsText(tags) == IF tags.isArray THEN Join(tags.v, " ") ELSE tags.v

\* the keyword rules: the first allowed category whose first word occurs in hay
KeywordCategory(hay) ==
  IF \E i \in 1..Len(CATEGORIES_ALLOWED) : RegexTestI(FirstWord(CATEGORIES_ALLOWED[i]), hay)
  THEN CATEGORIES_ALLOWED[CHOOSE i \in 1..Len(CATEGORIES_ALLOWED) :
         /\ RegexTestI(FirstWord(CATEGORIES_ALLOWED[i]), hay)
         /\ \A j \in 1..(i - 1) : ~RegexTestI(FirstWord(CATEGORIES_ALLOWED[j]), hay)]
  ELSE Undef

normalizeCategoryUnchecked(prodLike, aiCategory) ==
  IF Truthy(aiCategory) THEN aiCategory
  ELSE Or(KeywordCategory(Join(SelectSeq(
            <<prodLike.name, prodLike.description, prodLike.category,
              prodLike.subcategory, TagsText(prodLike.tags)>>, Truthy), " ")),
          <<"Download">>)

normalizeCategory(prodLike, aiCategory) ==
  IF aiCategory \in AllowedSet THEN aiCategory
  ELSE Or(KeywordCategory(Join(SelectSeq(
            <<prodLike.name, prodLike.description, prodLike.category,
              prodLike.subcategory, TagsText(prodLike.tags)>>, Truthy), " ")),
          <<"Download">>)

\* ['groq','gemini','pollinations'], line 374
DefaultTextOrder == <<Str("groq"), Str("gemini"), Str("pollinations")>>

\* the providerOrderParam argument: an array, or a value that is no array
OrderArray(items) == [kind |-> "array", items |-> items]

resolveProviderOrderEnvFirst(param, env) ==
  IF Truthy(env)
  THEN SelectSeq(MapTrim(SplitOn(env, {","})), NonEmpty)
  ELSE IF param.kind = "array" /\ Len(param.items) > 0 THEN param.items
  ELSE DefaultTextOrder

\* providerOrder of enrichWithAI, lines 373-374; env is
\* process.env.TEXT_PROVIDER_ORDER
resolveProviderOrder(param, env) ==
  IF param.kind = "array" /\ Len(param.items) > 0 THEN param.items
  ELSE IF Truthy(env)
  THEN SelectSeq(MapTrim(SplitOn(env, {","})), NonEmpty)
  ELSE DefaultTextOrder

\* set.add(x): a Set keeps insertion order and holds a value once
SetAdd(acc, x) ==
  IF \E i \in 1..Len(acc) : acc[i] = x THEN acc ELSE Append(acc, x)

RECURSIVE SetAddAll(_, _)
SetAddAll(acc, xs) ==
  IF xs = <<>> THEN acc ELSE SetAddAll(SetAdd(acc, Head(xs)), Tail(xs))

\* uniqMerge, line 185: flat, filter(Boolean), a Set of the trimmed strings,
\* filter(Boolean)
uniqMerge(arrs) ==
  SelectSeq(SetAddAll(<<>>, MapTrim(SelectSeq(Concat(arrs), Truthy))), NonEmpty)

\* the numeric tokens and the number each reads as
NumTokens == {"199", "1"}

NumValue(t) == IF t = "199" THEN 199 ELSE 1

IsNum(t) == t \in NumTokens

Number(n) == [kind |-> "number", n |-> n]

\* parsePrice on a token string: the first numeric token, or null
parsePrice(raw) ==
  IF ~Truthy(raw) THEN Null
  ELSE IF SelectSeq(raw, IsNum) = <<>> THEN Null
  ELSE Number(NumValue(Head(SelectSeq(raw, IsNum))))

\* parsePrice character by character, line 184.  A price string is a
\* sequence of one-character strings.
DigitChars == {"0", "1", "2", "3", "4", "5", "6", "7", "8", "9"}

DigitValue(c) ==
  CASE c = "0" -> 0 [] c = "1" -> 1 [] c = "2" -> 2 [] c = "3" -> 3
    [] c = "4" -> 4 [] c = "5" -> 5 [] c = "6" -> 6 [] c = "7" -> 7
    [] c = "8" -> 8 [] c = "9" -> 9

RECURSIVE Pow10(_)
Pow10(k) == IF k = 0 THEN 1 ELSE 10 * Pow10(k - 1)

\* the longest prefix of s made of characters of S
RECURSIVE PrefixIn(_, _)
PrefixIn(s, S) ==
  IF s = <<>> \/ Head(s) \notin S THEN <<>>
  ELSE <<Head(s)>> \o PrefixIn(Tail(s), S)

\* String(raw).match(/(\d[\d,.]*)/): m[1], or <<>> when there is no match
RECURSIVE matchNumeric(_)
matchNumeric(s) ==
  IF s = <<>> THEN <<>>
  ELSE IF Head(s) \in DigitChars
    THEN <<Head(s)>> \o PrefixIn(Tail(s), DigitChars \cup {",", "."})
  ELSE matchNumeric(Tail(s))

KeepCommas(s) == s

\* .replace(/,/g, '')
RemoveCommas(s) == SelectSeq(s, LAMBDA c : c # ",")

\* the number a string of digits reads as
RECURSIVE DigitsValue(_)
DigitsValue(ds) ==
  IF ds = <<>> THEN 0
  ELSE DigitsValue(SubSeq(ds, 1, Len(ds) - 1)) * 10 + DigitValue(ds[Len(ds)])

\* parseFloat of a string that starts with a digit: the longest prefix that
\* is a decimal literal, as the fraction num / den
parseFloat(s) ==
  LET int == PrefixIn(s, DigitChars)
      rest == SubSeq(s, Len(int) + 1, Len(s))
      frac == IF rest # <<>> /\ Head(rest) = "."
              THEN PrefixIn(Tail(rest), DigitChars) ELSE <<>>
  IN [num |-> DigitsValue(int \o frac), den |-> Pow10(Len(frac))]

\* Math.round of a non-negative fraction: halves go up
MathRound(x) == (2 * x.num + x.den) \div (2 * x.den)

parsePriceChars(raw) ==
  IF ~Truthy(raw) THEN Null
  ELSE LET m == matchNumeric(raw)
       IN IF m = <<>> THEN Null
          ELSE Number(MathRound(parseFloat(RemoveCommas(m))))

\* Host names and product names character by character, lines 204-206 and
\* 810-821
AlnumChars ==
  {"a", "b", "c", "d", "e", "f", "g", "h", "i", "j", "k", "l", "m", "n", "o",
   "p", "q", "r", "s", "t", "u", "v", "w", "x", "y", "z"} \cup DigitChars

LowerChars(s) == [i \in 1..Len(s) |-> Lower(s[i])]

\* .toLowerCase().replace(/[^a-z0-9]+/g, '')
AlnumLower(s) == SelectSeq(LowerChars(s), LAMBDA c : c \in AlnumChars)

\* stripTLD, line 205: the labels but the last, or the host when that is empty
stripTLD(host) ==
  LET labels == SplitOn(host, {"."})
      front == Join(SubSeq(labels, 1, Len(labels) - 1), ".")
  IN IF front # <<>> THEN front ELSE host

Min3(a, b, c) == IF a <= b /\ a <= c THEN a ELSE IF b <= c THEN b ELSE c

\* row i of the table dp of levenshtein from row i - 1, filled left to right
RECURSIVE LevRow(_, _, _, _)
LevRow(prev, ca, b, row) ==
  IF Len(row) = Len(b) + 1 THEN row
  ELSE LET j == Len(row)
           cost == IF ca = b[j] THEN 0 ELSE 1
       IN LevRow(prev, ca, b,
                 Append(row, Min3(prev[j + 1] + 1, row[j] + 1, prev[j] + cost)))

RECURSIVE LevRows(_, _, _, _)
LevRows(a, b, i, prev) ==
  IF i > Len(a) THEN prev
  ELSE LevRows(a, b, i + 1, LevRow(prev, a[i], b, <<i>>))

\* levenshtein, line 206
levenshtein(a, b) ==
  IF a = <<>> THEN Len(b)
  ELSE IF b = <<>> THEN Len(a)
  ELSE LevRows(a, b, 1, [j \in 1..(Len(b) + 1) |-> j - 1])[Len(b) + 1]

\* bestScore before any host is seen
Infinity == -1

BetterOrEqual(d, best) == best = Infinity \/ d <= best

\* d < bestScore, line 815
Better(d, best) == best = Infinity \/ d < best

\* the loop over the hosts, lines 811-816
RECURSIVE BestHostLoop(_, _, _)
BestHostLoop(brand, hosts, best) ==
  IF hosts = <<>> THEN best
  ELSE LET h == Head(hosts)
           d == levenshtein(brand, AlnumLower(stripTLD(h)))
       IN BestHostLoop(brand, Tail(hosts),
                       IF Better(d, best.bestScore)
                       THEN [bestHost |-> h, bestScore |-> d]
                       ELSE best)

\* the official host of searchWebForProduct, lines 810-821: the host chosen,
\* its distance, and whether the product paths were added to the URLs
officialHost(productName, hosts) ==
  LET brand == AlnumLower(productName)
      best == BestHostLoop(brand, hosts,
                           [bestHost |-> <<>>, bestScore |-> Infinity])
  IN [bestHost |-> best.bestHost, bestScore |-> best.bestScore,
      paths |-> best.bestHost # <<>> /\ best.bestScore <= 3]

\* one turn of the loop of tryWithRetries after attempt i threw
tryWithRetriesNextNoRetry(i, attempts) == "giveup"

tryWithRetriesNext(i, attempts) == IF i + 1 < attempts THEN "retry" ELSE "giveup"

\* the wait after attempt i threw
RECURSIVE Pow2(_)
Pow2(i) == IF i = 0 THEN 1 ELSE 2 * Pow2(i - 1)

Backoff(i, baseDelay) == baseDelay * Pow2(i)

-----------------------------------------------------------------------------
(* The text adapters (src/bot.js 187-353): what each makes of its backend *)

\* the outcome of a call: a value returned, or an exception thrown to the caller
Ret(v) == [threw |-> FALSE, value |-> v]

Thrown == [threw |-> TRUE, value |-> Null]

\* try { ... } catch (e) { return null }, with and without the handler
CatchRethrow(r) == r

Catch(r) == IF r.threw THEN Ret(Null) ELSE r

NoMatch == [kind |-> "no match", truthy |-> FALSE]

SyntaxError == [kind |-> "SyntaxError", truthy |-> FALSE]

\* A model's answer text, by what the parsers can make of it: empty, it is the
\* empty string; fenced, it is wrapped in a markdown code fence; braces, what
\* JSON.parse makes of the stretch from the first { to the last }, or NoMatch;
\* whole, what JSON.parse makes of the text with the fence removed
Content(empty, fenced, braces, whole) ==
  [empty |-> empty, fenced |-> fenced, braces |-> braces, whole |-> whole]

EmptyContent == Content(TRUE, FALSE, NoMatch, SyntaxError)

Contents ==
  {EmptyContent}
  \cup \* prose, an unbalanced brace, braces around something that is not JSON
       {Content(FALSE, f, b, SyntaxError) : f \in BOOLEAN, b \in {NoMatch, SyntaxError}}
  \cup \* a JSON object, bare or fenced
       {Content(FALSE, f, o, o) : f \in BOOLEAN, o \in JsonObjects}
  \cup \* prose around a JSON object
       {Content(FALSE, FALSE, o, SyntaxError) : o \in {ScenarioA}}
  \cup \* a JSON value that is not an object and holds none: null, 42, 0, a string
       {Content(FALSE, f, NoMatch, v) :
          f \in BOOLEAN, v \in {Null} \cup JsonArrays \cup JsonPrimitives}
  \cup \* a JSON array that holds an object
       {Content(FALSE, FALSE, o, NonObject("array", TRUE)) : o \in {ScenarioA}}

\* safeParseFirstJsonObject, lines 187-193
safeParseFirstJsonObject(c) ==
  IF c.empty \/ c.braces \in {NoMatch, SyntaxError} THEN Null ELSE c.braces

\* JSON.parse(content) of the text as it came
JSONparse(c) ==
  IF c.empty \/ c.fenced \/ c.whole = SyntaxError THEN Thrown ELSE Ret(c.whole)

\* line 281: the fence is removed first
JSONparseCleaned(c) ==
  IF c.empty \/ c.whole = SyntaxError THEN Thrown ELSE Ret(c.whole)

\* what a backend does with a request: the transport fails or times out, it
\* answers with an error status, its body is not the JSON expected, or it
\* answers with some content
Backend(net, content) == [net |-> net, content |-> content]

Backends ==
  {Backend(n, EmptyContent) : n \in {"exception", "http error", "bad body"}}
  \cup {Backend("ok", c) : c \in Contents}

\* the body of the try block of pollinationsTextJSON, lines 217-234
pollinationsTry(b) ==
  IF b.net # "ok" THEN Thrown
  ELSE IF safeParseFirstJsonObject(b.content) # Null
       THEN Ret(safeParseFirstJsonObject(b.content))
       ELSE JSONparse(b.content)

\* pollinationsTextJSON, lines 216-239
pollinationsTextJSON(b) == Catch(pollinationsTry(b))

\* the body of the try block of the groq branch, lines 330-342
groqTry(b) ==
  IF b.net # "ok" THEN Thrown
  ELSE IF safeParseFirstJsonObject(b.content) # Null
       THEN Ret(safeParseFirstJsonObject(b.content))
       ELSE IF b.content.empty THEN Ret(Null) ELSE JSONparse(b.content)

\* the body of the try block of generateTextFromHuggingFace, lines 303-317
huggingFaceTry(b) ==
  IF b.net # "ok" THEN Thrown
  ELSE IF b.content.empty THEN Ret(Null)
  ELSE Ret(safeParseFirstJsonObject(b.content))

\* generateTextFromHuggingFace, lines 295-322
generateTextFromHuggingFaceCall(hasKey, b) ==
  IF ~hasKey THEN Ret(Null) ELSE Catch(huggingFaceTry(b))

\* one turn of the key loop of geminiTextJSON, lines 257-287: the value returned,
\* or Thrown when the loop continues with the next key
geminiTurnErrorIsNull(b) ==
  IF b.net # "ok" \/ b.content.empty THEN Ret(Null) ELSE JSONparseCleaned(b.content)

geminiTurn(b) ==
  IF b.net # "ok" \/ b.content.empty THEN Thrown ELSE JSONparseCleaned(b.content)

\* getTextFromProvider for the providers that make one request, lines 325-353
getTextFromProviderCall(p, b) ==
  CASE p = "pollinations" -> pollinationsTextJSON(b)
    [] p = "groq" -> Catch(groqTry(b))
    [] OTHER -> Ret(Null)

-----------------------------------------------------------------------------
(* The image adapters (src/bot.js 556-647) *)

\* a Buffer of the given length
Buffer(length) == [kind |-> "buffer", truthy |-> TRUE, length |-> length]

\* what an image backend does with a request.  creds: the adapter's credentials
\* are configured; net: the transport throws, or the status is an error, or ok;
\* body: what the response carries
ImageBackend(creds, net, body) == [creds |-> creds, net |-> net, body |-> body]

\* bodies of an error response: a content-safety rejection, a rate limit or
\* quota message (or status 429), anything else
ErrorBodies == {"safety", "rate limit", "other"}

\* bodies of a 2xx response: image bytes, no bytes, JSON that carries an image,
\* JSON whose image decodes to no bytes, JSON without an image, JSON saying
\* success: false, text that is not JSON, JSON whose image URL cannot be fetched
OkBodies ==
  {"image", "empty image", "json image", "json empty image", "json without image",
   "json failure", "not json", "json image unfetchable"}

ImageBackends ==
  {ImageBackend(c, "exception", "other") : c \in BOOLEAN}
  \cup {ImageBackend(c, "http error", b) : c \in BOOLEAN, b \in ErrorBodies}
  \cup {ImageBackend(c, "ok", b) : c \in BOOLEAN, b \in OkBodies}

\* generateImageFromPollinations, lines 556-567: any 2xx body becomes the buffer
generateImageFromPollinations(b) ==
  Catch(IF b.net # "ok" THEN Thrown
        ELSE IF b.body = "empty image" THEN Ret(Buffer(0)) ELSE Ret(Buffer(1)))

\* generateImageFromHuggingFace, lines 569-585: the client throws on anything
\* that is not an image
generateImageFromHuggingFace(hasKey, b) ==
  IF ~hasKey THEN Ret(Null)
  ELSE Catch(IF b.net # "ok" THEN Thrown
             ELSE CASE b.body = "image" -> Ret(Buffer(1))
                    [] b.body = "empty image" -> Ret(Buffer(0))
                    [] OTHER -> Thrown)

\* the try block of generateImageFromDeepAI, lines 589-601
deepAITry(b) ==
  IF b.net # "ok" THEN Thrown
  ELSE CASE b.body = "json image" -> Ret(Buffer(1))
         [] b.body = "json empty image" -> Ret(Buffer(0))
         [] OTHER -> Thrown

generateImageFromDeepAINoCatch(b) == IF ~b.creds THEN Ret(Null) ELSE deepAITry(b)

\* generateImageFromDeepAI, lines 587-606
generateImageFromDeepAI(b) == IF ~b.creds THEN Ret(Null) ELSE Catch(deepAITry(b))

generateImageFromCloudflareAllHard(b) ==
  IF ~b.creds THEN Ret(Null)
  ELSE CASE b.net \in {"exception", "http error"} -> Thrown
         [] OTHER ->
              CASE b.body \in {"image", "json image"} -> Ret(Buffer(1))
                [] b.body \in {"empty image", "json empty image"} -> Ret(Buffer(0))
                [] b.body \in {"not json", "json failure"} -> Thrown
                [] OTHER -> Ret(Null)

\* generateImageFromCloudflare, lines 608-647: nothing catches the fetch of line
\* 618 or the throws of lines 629, 640 and 643
generateImageFromCloudflare(b) ==
  IF ~b.creds THEN Ret(Null)
  ELSE CASE b.net = "exception" -> Thrown
         [] b.net = "http error" ->
              IF b.body \in {"safety", "rate limit"} THEN Ret(Null) ELSE Thrown
         [] OTHER ->
              CASE b.body \in {"image", "json image"} -> Ret(Buffer(1))
                [] b.body \in {"empty image", "json empty image"} -> Ret(Buffer(0))
                [] b.body \in {"not json", "json failure"} -> Thrown
                [] OTHER -> Ret(Null)

ImageProviders == {"cloudflare", "hf", "deepai", "pollinations"}

\* the adapter generateBackgroundWithOrder calls for a provider, lines 659-667
generateImage(p, hasKey, b) ==
  CASE p = "hf" -> generateImageFromHuggingFace(hasKey, b)
    [] p = "cloudflare" -> generateImageFromCloudflare(b)
    [] p = "deepai" -> generateImageFromDeepAI(b)
    [] p = "pollinations" -> generateImageFromPollinations(b)

\* the outcome as tryWithRetries and line 669 tell it apart
OutcomeOf(r) ==
  IF r.threw THEN "throw"
  ELSE IF r.value = Null THEN "null"
  ELSE IF r.value.length = 0 THEN "empty" ELSE "buffer"

NoBackend == Backend("none", EmptyContent)

\* the configuration, and the rotation index earlier calls left behind
AdapterInit ==
  /\ adapter = "none"
  /\ apc = "idle"
  /\ backend = NoBackend
  /\ aresult = Ret(Null)
  /\ hfKey \in BOOLEAN
  /\ geminiKeys \in 0..MaxGeminiKeys
  /\ geminiIndex \in 0..(IF geminiKeys = 0 THEN 0 ELSE geminiKeys - 1)
  /\ gi = 0
  /\ keysUsed = <<>>
  /\ prevKey = -1

\* the outcome r ends the call
AdapterEnds(r) ==
  /\ aresult' = r
  /\ apc' = IF r.threw THEN "threw" ELSE "returned"

\* getTextFromProvider with pollinations, groq or an id it does not know
CallProvider ==
  /\ apc = "idle"
  /\ \E p \in {"pollinations", "groq", "other"}, b \in Backends :
       /\ adapter' = p
       /\ backend' = IF p = "other" THEN NoBackend ELSE b
       /\ AdapterEnds(getTextFromProviderCall(p, b))
  /\ UNCHANGED <<hfKey, geminiKeys, geminiIndex, gi, keysUsed, prevKey>>
  /\ UNCHANGED nonAdapterVars

\* generateTextFromHuggingFace
CallHuggingFace ==
  /\ apc = "idle"
  /\ \E b \in Backends :
       /\ adapter' = "huggingface"
       /\ backend' = IF hfKey THEN b ELSE NoBackend
       /\ AdapterEnds(generateTextFromHuggingFaceCall(hfKey, b))
  /\ UNCHANGED <<hfKey, geminiKeys, geminiIndex, gi, keysUsed, prevKey>>
  /\ UNCHANGED nonAdapterVars

\* getTextFromProvider with gemini, lines 348-351, up to the key loop of
\* geminiTextJSON, lines 244-255
CallGemini ==
  /\ apc = "idle"
  /\ adapter' = "gemini"
  /\ IF geminiKeys = 0
     THEN AdapterEnds(Ret(Null))
     ELSE apc' = "gemini" /\ UNCHANGED aresult
  /\ UNCHANGED <<backend, hfKey, geminiKeys, geminiIndex, gi, keysUsed, prevKey>>
  /\ UNCHANGED nonAdapterVars

\* one turn of the loop of lines 255-289, and the return null of line 290
GeminiKey ==
  /\ apc = "gemini"
  /\ \E b \in Backends :
       /\ backend' = b
       /\ keysUsed' = Append(keysUsed, geminiIndex)
       /\ geminiIndex' = (geminiIndex + 1) % geminiKeys
       /\ gi' = gi + 1
       /\ IF ~geminiTurn(b).threw THEN AdapterEnds(Catch(geminiTurn(b)))
          ELSE IF gi + 1 < geminiKeys THEN UNCHANGED <<apc, aresult>>
          ELSE AdapterEnds(Ret(Null))
  /\ UNCHANGED <<adapter, hfKey, geminiKeys, prevKey>>
  /\ UNCHANGED nonAdapterVars

\* the label tryWithRetries is given for a provider, lines 660-666
ImageLabel(p) ==
  CASE p = "hf" -> "image:hf"
    [] p = "cloudflare" -> "image:cloudflare"
    [] p = "deepai" -> "image:deepai"
    [] p = "pollinations" -> "image:pollinations"

\* one invocation of an image adapter
CallImageAdapter ==
  /\ apc = "idle"
  /\ \E p \in ImageProviders, b \in ImageBackends :
       /\ adapter' = ImageLabel(p)
       /\ backend' = b
       /\ AdapterEnds(generateImage(p, hfKey, b))
  /\ UNCHANGED <<hfKey, geminiKeys, geminiIndex, gi, keysUsed, prevKey>>
  /\ UNCHANGED nonAdapterVars

\* the caller has the value, or has caught the exception; the next call can start
AdapterDone ==
  /\ apc \in {"returned", "threw"}
  /\ adapter' = "none"
  /\ apc' = "idle"
  /\ backend' = NoBackend
  /\ aresult' = Ret(Null)
  /\ gi' = 0
  /\ keysUsed' = <<>>
  /\ prevKey' = IF keysUsed # <<>> THEN keysUsed[Len(keysUsed)] ELSE prevKey
  /\ UNCHANGED <<hfKey, geminiKeys, geminiIndex>>
  /\ UNCHANGED nonAdapterVars

AdapterNext ==
  \/ CallProvider
  \/ CallHuggingFace
  \/ CallGemini
  \/ GeminiKey
  \/ CallImageAdapter
  \/ AdapterDone

AdapterIdle ==
  /\ adapter = "none"
  /\ apc = "idle"
  /\ backend = NoBackend
  /\ aresult = Ret(Null)
  /\ hfKey = TRUE
  /\ geminiKeys = 1
  /\ geminiIndex = 0
  /\ gi = 0
  /\ keysUsed = <<>>
  /\ prevKey = -1

-----------------------------------------------------------------------------
(* enrichWithAI, runTextProvidersWithOrder (src/bot.js 362-450) *)

TextTokens == {"Ott", "x", "*", "\n"}

RECURSIVE SeqsUpTo(_, _)
SeqsUpTo(S, n) ==
  IF n = 0 THEN {<<>>}
  ELSE SeqsUpTo(S, n - 1) \cup
       {Append(s, t) : s \in {q \in SeqsUpTo(S, n - 1) : Len(q) = n - 1}, t \in S}

Texts == SeqsUpTo(TextTokens, MaxTextLen)

\* the orders the shell stores in session.textOrder (src/bot.js 1085-1088)
Orders ==
  {<<"pollinations", "groq", "gemini">>, <<"groq", "gemini", "pollinations">>,
   <<"gemini", "groq", "pollinations">>}

\* combinedSite.length, on both sides of the detail pass threshold
CombinedLens == {400, 401}

\* what getTextFromProvider can return for a provider id
getTextFromProvider(p) ==
  IF p = "gemini"
  THEN {Null} \cup {geminiTurn(b).value : b \in Backends}
  ELSE {getTextFromProviderCall(p, b).value : b \in Backends}

\* what generateTextFromHuggingFace can return: safeParseFirstJsonObject parses
\* the text from the first brace on, so an object or null
generateTextFromHuggingFace ==
  {generateTextFromHuggingFaceCall(k, b).value : k \in BOOLEAN, b \in Backends}

cleanTextHints == sanitizeTextForAI(textHints)

guessedName == Slice(FirstLine(cleanTextHints), 120)

\* /plan[:\-]?\s*([^\n]+)/i : the rest of the line after the word plan
RECURSIVE AfterPlan(_)
AfterPlan(s) ==
  IF s = <<>> THEN <<>>
  ELSE IF Head(s) \in {"plan", "Plan"}
       THEN LET r1 == IF Tail(s) # <<>> /\ Head(Tail(s)) \in {":", "-"}
                      THEN Tail(Tail(s)) ELSE Tail(s)
                r2 == FirstLine(SubSeq(r1, WsRun(r1) + 1, Len(r1)))
            IN IF r2 # <<>> THEN r2 ELSE AfterPlan(Tail(s))
       ELSE AfterPlan(Tail(s))

planGuess == Slice(AfterPlan(cleanTextHints), 80)

\* lines 386-395: the record built when no provider gave JSON
DegradedRecordLongDescription ==
  LET extractedName == Or(Trim(FirstLine(cleanTextHints)), <<"Product">>)
  IN Obj(extractedName, <<"unknown">>, <<"unknown">>, parsePrice(cleanTextHints),
         cleanTextHints, Arr(<<>>),
         normalizeCategory([name |-> extractedName, description |-> cleanTextHints,
                            category |-> Undef, subcategory |-> Undef, tags |-> NoArray],
                           Undef),
         Undef, Arr(<<>>))

DegradedRecord ==
  LET extractedName == Or(Trim(FirstLine(cleanTextHints)), <<"Product">>)
  IN Obj(extractedName, <<"unknown">>, <<"unknown">>, parsePrice(cleanTextHints),
         extractedName, Arr(<<>>),
         normalizeCategory([name |-> extractedName, description |-> cleanTextHints,
                            category |-> Undef, subcategory |-> Undef, tags |-> NoArray],
                           Undef),
         Undef, Arr(<<>>))

\* lines 397-402: the coercions applied to the provider's object
Coerce(j) ==
  [j EXCEPT
     !.name = Or(j.name, Or(guessedName, <<"Product">>)),
     !.plan = Or(j.plan, Or(planGuess, <<"unknown">>)),
     !.validity = Or(j.validity, <<"unknown">>),
     !.price = parsePrice(Or(j.price, textHints)),
     !.tags = IF j.tags.isArray THEN j.tags
              ELSE Arr(SelectSeq(MapTrim(SplitOn(Or(j.tags.v, <<>>), {";", ","})), NonEmpty)),
     !.features = IF j.features.isArray THEN j.features ELSE Arr(<<>>)]

needDetailDescriptionOnly(j) ==
  \/ ~Truthy(j.description)
  \/ StrLen(j.description) < 150

\* line 404
needDetail(j) ==
  \/ ~Truthy(j.description)
  \/ StrLen(j.description) < 150
  \/ Len(j.features.v) < 3

\* lines 423-424
Finalize(j) ==
  [j EXCEPT
     !.category = normalizeCategory([j EXCEPT !.description = textHints], j.category),
     !.subcategory = Or(j.subcategory, <<"unknown">>)]

\* the answer of the detail request: it throws, or its text splits into a
\* description and bullet lines
Bullets == << <<"b1">>, <<"b2">>, <<"b3">>, <<"b4">>, <<"b5">>, <<"b6">> >>

DetailOutcomes ==
  {[throws |-> TRUE, desc |-> <<>>, bullets |-> <<>>],
   [throws |-> FALSE, desc |-> <<>>, bullets |-> <<>>],
   [throws |-> FALSE, desc |-> <<"s130">>, bullets |-> Bullets],
   [throws |-> FALSE, desc |-> <<"brief">>, bullets |-> << <<"b1">> >>]}

\* lines 414-419
MergeDetail(j, o) ==
  IF o.throws THEN j
  ELSE [j EXCEPT
          !.description = IF (~Truthy(j.description) \/ StrLen(j.description) < 120)
                             /\ StrLen(o.desc) > 0
                          THEN Slice(o.desc, 600) ELSE j.description,
          !.features = IF Len(j.features.v) < 3 /\ Len(o.bullets) > 0
                       THEN Arr(SubSeq(o.bullets, 1, IF Len(o.bullets) < 5 THEN Len(o.bullets) ELSE 5))
                       ELSE j.features]

TextInit ==
  /\ textHints \in Texts
  /\ providerOrder \in Orders
  /\ combinedLen = 0
  /\ tpc = "start"
  /\ pIdx = 1
  /\ attempt = 0
  /\ calls = <<>>
  /\ lastAnswer = "none"
  /\ sleeps = <<>>
  /\ json = Null
  /\ provider = "none"
  /\ detailCalls = 0
  /\ result = Null

\* lines 363-377: sanitize, gather the evidence, resolve the order
EnrichStart ==
  /\ tpc = "start"
  /\ combinedLen' \in CombinedLens
  /\ tpc' = IF Len(providerOrder) > 0 THEN "run" ELSE "hf"
  /\ UNCHANGED <<textHints, providerOrder, pIdx, attempt, calls, lastAnswer,
                 sleeps, json, provider, detailCalls, result>>
  /\ UNCHANGED nonTextVars

GotJsonAndContinue(j, prov) ==
  /\ tpc' = "run"
  /\ json' = j
  /\ result' = Null

\* the continuation of enrichWithAI once json is truthy (lines 397-405, 423-427)
GotJson(j, prov) ==
  IF j.kind \notin {"object", "array"}
  THEN \* strict mode: assigning a property of a primitive throws TypeError
       /\ tpc' = "rejected"
       /\ json' = j
       /\ result' = Null
  ELSE IF needDetail(Coerce(j)) /\ combinedLen > 400 /\ prov # "Hugging Face"
       THEN /\ tpc' = "detail"
            /\ json' = Coerce(j)
            /\ result' = Null
       ELSE /\ tpc' = "done"
            /\ json' = Finalize(Coerce(j))
            /\ result' = Finalize(Coerce(j))

\* one attempt of tryWithRetries inside runTextProvidersWithOrder (lines 431-448)
TextAttempt ==
  /\ tpc = "run"
  /\ \E j \in getTextFromProvider(providerOrder[pIdx]) :
       /\ calls' = Append(calls, [p |-> providerOrder[pIdx], ok |-> ~Falsy(j)])
       /\ lastAnswer' = j.kind
       /\ IF Falsy(j)
          THEN \* no-json is thrown, caught by tryWithRetries, which sleeps
               /\ sleeps' = Append(sleeps, Backoff(attempt, BASE_DELAY))
               /\ IF tryWithRetriesNext(attempt, TEXT_RETRIES) = "retry"
                  THEN /\ attempt' = attempt + 1
                       /\ UNCHANGED <<pIdx, tpc>>
                  ELSE /\ attempt' = 0
                       /\ pIdx' = pIdx + 1
                       /\ tpc' = IF pIdx < Len(providerOrder) THEN "run" ELSE "hf"
               /\ UNCHANGED <<json, provider, result>>
          ELSE /\ provider' = providerOrder[pIdx]
               /\ GotJson(j, providerOrder[pIdx])
               /\ UNCHANGED <<sleeps, attempt, pIdx>>
  /\ UNCHANGED <<textHints, providerOrder, combinedLen, detailCalls>>
  /\ UNCHANGED nonTextVars

\* lines 379-395: the Hugging Face fallback, then the degraded record
HuggingFaceFallback ==
  /\ tpc = "hf"
  /\ \E j \in generateTextFromHuggingFace :
       /\ calls' = Append(calls, [p |-> "Hugging Face", ok |-> ~Falsy(j)])
       /\ lastAnswer' = j.kind
       /\ provider' = "Hugging Face"
       /\ IF Falsy(j)
          THEN /\ tpc' = "done"
               /\ result' = DegradedRecord
               /\ UNCHANGED json
          ELSE GotJson(j, "Hugging Face")
  /\ UNCHANGED <<textHints, providerOrder, combinedLen, pIdx, attempt, sleeps,
                 detailCalls>>
  /\ UNCHANGED nonTextVars

\* lines 406-427: the detail request, its merge, and the return
DetailPass ==
  /\ tpc = "detail"
  /\ detailCalls' = detailCalls + 1
  /\ \E o \in DetailOutcomes :
       /\ json' = Finalize(MergeDetail(json, o))
       /\ result' = Finalize(MergeDetail(json, o))
  /\ tpc' = "done"
  /\ UNCHANGED <<textHints, providerOrder, combinedLen, pIdx, attempt, calls,
                 lastAnswer, sleeps, provider>>
  /\ UNCHANGED nonTextVars

TextNext == EnrichStart \/ TextAttempt \/ HuggingFaceFallback \/ DetailPass

-----------------------------------------------------------------------------
(* tryBrandImages, generateBackgroundWithOrder (src/bot.js 649-763) *)

\* a public URL returned by the n-th rehostToSupabase call of the invocation
Hosted(n) == [kind |-> "hosted", call |-> n]

\* the URL of an asset on somebody else's server, found by a tier
ThirdParty(tier) == [kind |-> "third", call |-> 0]

\* the orders the shell passes (src/bot.js 1353-1357), and the empty default
ImageOrders ==
  {<<>>, <<"pollinations", "hf", "deepai">>, <<"hf", "pollinations", "deepai">>,
   <<"deepai", "pollinations", "hf">>, <<"cloudflare", "pollinations", "hf", "deepai">>,
   <<"cloudflare", "hf", "deepai", "pollinations">>}

defaultOrder == <<"cloudflare", "hf", "deepai", "pollinations">>

\* line 654
EffectiveOrder == IF Len(order) > 0 THEN order ELSE defaultOrder

\* what one invocation of a provider's adapter can do: return image bytes, an
\* empty buffer or null; only the Cloudflare adapter can throw (lines 618-643)
ImageAdapterOutcomes(p) ==
  IF p \in ImageProviders
  THEN {OutcomeOf(generateImage(p, k, b)) : k \in BOOLEAN, b \in ImageBackends}
  ELSE {}

\* the Cloudflare backend rejects the request for content safety or for rate
\* limit or quota, lines 625-628
SoftRejection(b) ==
  b.creds /\ b.net = "http error" /\ b.body \in {"safety", "rate limit"}

\* whether an invocation of p with outcome out can be one the Cloudflare
\* backend rejected softly
SoftFlags(p, out) ==
  {p = "cloudflare" /\ SoftRejection(b) :
     b \in {c \in ImageBackends :
              \E k \in BOOLEAN : OutcomeOf(generateImage(p, k, c)) = out}}

\* a tier that found a source (found) hands it to rehostToSupabase, which returns
\* (ok) or throws; n is the number of rehost calls made before
HostTierDirect(tier, found, ok, n) ==
  [called |-> FALSE, hosted |-> found,
   url |-> IF found THEN ThirdParty(tier) ELSE Null]

HostTier(tier, found, ok, n) ==
  [called |-> found, hosted |-> found /\ ok,
   url |-> IF found /\ ok THEN Hosted(n + 1) ELSE Null]

\* where tryBrandImages goes after a tier: it returns on a hosted URL, and
\* otherwise falls to the next tier (lines 738-762)
BrandNextNoStop(tier, hosted) ==
  CASE tier = "og" -> "logo"
    [] tier = "logo" -> "search"
    [] OTHER -> "done"

BrandNext(tier, hosted) ==
  IF hosted THEN "done"
  ELSE CASE tier = "og" -> "logo"
         [] tier = "logo" -> "search"
         [] OTHER -> "done"

ImageInit ==
  /\ ifn \in {"tryBrandImages", "generateBackgroundWithOrder"}
  /\ hasDomain \in BOOLEAN
  /\ order \in ImageOrders
  /\ ifn = "tryBrandImages" => order = <<>>
  /\ ifn = "generateBackgroundWithOrder" => hasDomain = FALSE
  /\ ipc = IF ifn = "generateBackgroundWithOrder" THEN "gen"
           ELSE IF hasDomain THEN "og" ELSE "search"
  /\ iIdx = 1
  /\ iAttempt = 0
  /\ tiers = <<>>
  /\ adapterCalls = <<>>
  /\ rehosts = <<>>
  /\ card = "none"
  /\ iresult = Null

\* one tier of tryBrandImages: the OpenGraph image (737-741), the logo API
\* (743-754), the image search (757-761)
BrandTier(tier) ==
  /\ ifn = "tryBrandImages"
  /\ ipc = tier
  /\ tiers' = Append(tiers, tier)
  /\ \E found \in BOOLEAN, ok \in BOOLEAN :
       LET h == HostTier(tier, found, ok, Len(rehosts))
       IN /\ rehosts' = IF h.called THEN Append(rehosts, [src |-> tier, ok |-> ok])
                        ELSE rehosts
          /\ ipc' = BrandNext(tier, h.hosted)
          /\ iresult' = IF h.hosted THEN h.url ELSE iresult
  /\ UNCHANGED <<ifn, hasDomain, order, iIdx, iAttempt, adapterCalls, card>>
  /\ UNCHANGED nonImageVars

BrandOG == BrandTier("og")

BrandLogo == BrandTier("logo")

BrandSearch == BrandTier("search")

\* the for loop of line 656 after provider i of n: the next provider, or the
\* procedural card once the order is exhausted
GenLoopExitNoCard(i, n) == IF i < n THEN "gen" ELSE "done"

GenLoopExit(i, n) == IF i < n THEN "gen" ELSE "card"

\* where generateBackgroundWithOrder goes when a provider gave no bytes
GenAdvance ==
  /\ iIdx' = iIdx + 1
  /\ iAttempt' = 0
  /\ ipc' = GenLoopExit(iIdx, Len(EffectiveOrder))

GenAfterRehostCaught(hosted) == IF hosted THEN "done" ELSE "card"

\* line 671 is outside any try: the URL is returned, or the throw of
\* rehostToSupabase leaves generateBackgroundWithOrder
GenAfterRehost(hosted) == IF hosted THEN "done" ELSE "rejected"

\* one adapter invocation inside the loop of lines 656-674
GenAttempt ==
  /\ ifn = "generateBackgroundWithOrder"
  /\ ipc = "gen"
  /\ tiers' = IF iAttempt = 0 THEN Append(tiers, EffectiveOrder[iIdx]) ELSE tiers
  /\ \E out \in ImageAdapterOutcomes(EffectiveOrder[iIdx]) :
       /\ \E soft \in SoftFlags(EffectiveOrder[iIdx], out) :
            adapterCalls' = Append(adapterCalls, [p |-> EffectiveOrder[iIdx],
                                                  out |-> out, soft |-> soft])
       /\ CASE out = "throw" ->
                 \* caught by tryWithRetries, which sleeps and loops
                 /\ IF tryWithRetriesNext(iAttempt, IMAGE_RETRIES) = "retry"
                    THEN /\ iAttempt' = iAttempt + 1
                         /\ UNCHANGED <<iIdx, ipc>>
                    ELSE GenAdvance
                 /\ UNCHANGED <<rehosts, iresult>>
            [] out \in {"null", "empty"} ->
                 \* tryWithRetries returns what fn returned; buf?.length is falsy
                 /\ GenAdvance
                 /\ UNCHANGED <<rehosts, iresult>>
            [] OTHER ->
                 \* line 671: return await rehostToSupabase(buf, ...)
                 \E ok \in BOOLEAN :
                   LET h == HostTier(EffectiveOrder[iIdx], TRUE, ok, Len(rehosts))
                   IN /\ rehosts' = IF h.called
                                    THEN Append(rehosts, [src |-> EffectiveOrder[iIdx], ok |-> ok])
                                    ELSE rehosts
                      /\ iresult' = h.url
                      /\ ipc' = GenAfterRehost(h.hosted)
                      /\ UNCHANGED <<iIdx, iAttempt>>
  /\ UNCHANGED <<ifn, hasDomain, order, card>>
  /\ UNCHANGED nonImageVars

\* lines 676-684: the procedural card; a throw of the composition or of the
\* upload is caught and null is returned
GenCard ==
  /\ ifn = "generateBackgroundWithOrder"
  /\ ipc = "card"
  /\ tiers' = Append(tiers, "card")
  /\ \E composed \in BOOLEAN, ok \in BOOLEAN :
       LET h == HostTier("card", composed, ok, Len(rehosts))
       IN /\ rehosts' = IF h.called THEN Append(rehosts, [src |-> "card", ok |-> ok])
                        ELSE rehosts
          /\ card' = IF ~composed THEN "composeThrew"
                     ELSE IF h.hosted THEN "hosted" ELSE "rehostThrew"
          /\ iresult' = h.url
  /\ ipc' = "done"
  /\ UNCHANGED <<ifn, hasDomain, order, iIdx, iAttempt, adapterCalls>>
  /\ UNCHANGED nonImageVars

ImageNext == BrandOG \/ BrandLogo \/ BrandSearch \/ GenAttempt \/ GenCard

-----------------------------------------------------------------------------
(* The conversational shell: handlers of src/bot.js 956-1473.  Each handler  *)
(* is one action; the calls it awaits resolve to one of their outcomes.      *)

\* a URL rehostToSupabase returned for the bytes or URL of the given origin
Rehosted(origin) == [kind |-> "hosted", origin |-> origin]

\* https://api.telegram.org/file/bot<token>/<path>, the pattern of line 1207
TelegramFileUrl == [kind |-> "telegramFile"]

\* a URL the operator typed in a message
OperatorUrl == [kind |-> "operator"]

\* any other address: a page's og:image, a logo service, a search hit
ExternalUrl == [kind |-> "external"]

TABLES == {"products", "exclusive_products"}

\* the shapes of a text message that the handlers tell apart
MessageTexts == {"http", "longHttp", "slash", "short", "long"}

StartsWithHttp(text) == text \in {"http", "longHttp"}

\* text.includes NEWLINE or text.length > 40, line 1294
IsLong(text) == text \in {"longHttp", "long"}

\* what extractMetaTags(html).ogImage || null can be, line 1143
PageImages == {Null, ExternalUrl}

\* the image column of a stored row, line 1446
RowImages == {Null, Rehosted("row"), TelegramFileUrl, ExternalUrl}

\* ctx.session = {}
EmptySession ==
  [table |-> "null", mode |-> "null", await |-> "null", textOrder |-> <<>>,
   pendingSmart |-> Null, review |-> Null]

\* lines 1156-1157 and 1187-1188: the draft of a product being added
NewReviewWithPageImage(table, ogImageFromPage) ==
  [prod |-> [image |-> ogImageFromPage], table |-> table, updateId |-> FALSE,
   ogImageFromPage |-> ogImageFromPage]

NewReview(table, ogImageFromPage) ==
  [prod |-> [image |-> Null], table |-> table, updateId |-> FALSE,
   ogImageFromPage |-> ogImageFromPage]

\* tryBrandImages returns null or what rehostToSupabase returned (lines 732-763)
tryBrandImagesResults == {Null, Rehosted("og"), Rehosted("logo"), Rehosted("search")}

\* generateBackgroundWithOrder returns null or what rehostToSupabase returned, or
\* rejects when the upload of a provider's bytes throws (lines 649-685)
generateBackgroundResults == {Null, Rehosted("generated"), Rehosted("card")}

\* presentReview, lines 1201-1215: a Telegram file address in prod.image is
\* rehosted; when that throws prod.image is left as it was
presentReview(s, rehostOk) ==
  IF s.review = Null THEN s
  ELSE IF s.review.prod.image = TelegramFileUrl /\ rehostOk
       THEN [s EXCEPT !.review.prod.image = Rehosted("telegramFile")]
       ELSE s

\* smartAddHandler, lines 1098-1170; threw: something in its try block threw
smartAddHandler(s, ogImageFromPage, threw) ==
  IF s.table = "null" THEN [s |-> s, reply |-> "choose a table first"]
  ELSE IF threw
  THEN [s |-> [EmptySession EXCEPT !.table = s.table], reply |-> "an error occurred"]
  ELSE IF s.textOrder = <<>>
  THEN [s |-> [s EXCEPT !.await = "choose_text_api",
                        !.pendingSmart = [ogImageFromPage |-> ogImageFromPage]],
        reply |-> "choose text model"]
  ELSE [s |-> [s EXCEPT !.review = NewReview(s.table, ogImageFromPage),
                        !.mode = "null"],
        reply |-> "parsed"]

\* resumeSmartAddAfterTextChoice, lines 1172-1199; threw: enrichWithAI rejected
resumeSmartAddAfterTextChoice(s, threw) ==
  IF s.pendingSmart = Null THEN [s |-> s, reply |-> "no pending product"]
  ELSE IF threw
  THEN [s |-> [s EXCEPT !.pendingSmart = Null], reply |-> "an error occurred"]
  ELSE [s |-> [s EXCEPT !.pendingSmart = Null,
                        !.review = NewReview(s.table, s.pendingSmart.ogImageFromPage),
                        !.mode = "null"],
        reply |-> "parsed"]

\* applyAllEdits, lines 1242-1271: no key of the form reaches prod.image
applyAllEdits(s, rehostOk) ==
  IF s.review = Null THEN [s |-> s, reply |-> reply]
  ELSE [s |-> presentReview([s EXCEPT !.await = "null"], rehostOk), reply |-> "review"]

SessionInit ==
  /\ session = EmptySession
  /\ reply = "none"
  /\ db = <<>>

\* bot.start, lines 956-962
start ==
  /\ session' = EmptySession
  /\ reply' = "choose a table"
  /\ db' = <<>>
  /\ UNCHANGED nonSessionVars

\* bot.action set_table_*, lines 992-1000
set_table ==
  /\ \E t \in TABLES : session' = [session EXCEPT !.table = t, !.await = "null"]
  /\ reply' = "table set"
  /\ db' = <<>>
  /\ UNCHANGED nonSessionVars

\* bot.command smartadd, lines 974-979
smartadd ==
  /\ IF session.table = "null"
     THEN reply' = "first choose a table" /\ UNCHANGED session
     ELSE /\ session' = [session EXCEPT !.mode = "smart", !.await = "blob"]
          /\ reply' = "send the product text"
  /\ db' = <<>>
  /\ UNCHANGED nonSessionVars

\* bot.action again_smartadd, lines 1002-1009
again_smartadd ==
  /\ session' = [session EXCEPT !.mode = "smart", !.await = "blob"]
  /\ reply' = "send the product text"
  /\ db' = <<>>
  /\ UNCHANGED nonSessionVars

\* bot.action again_done, lines 1011-1018
again_done ==
  /\ session' = EmptySession
  /\ reply' = "choose a table"
  /\ db' = <<>>
  /\ UNCHANGED nonSessionVars

\* bot.on text, lines 1273-1297
onText ==
  /\ \E text \in MessageTexts, og \in PageImages, threw \in BOOLEAN, rehostOk \in BOOLEAN :
       IF session.await = "choose_text_api" THEN UNCHANGED <<session, reply>>
       ELSE IF session.table = "null" /\ text # "slash"
       THEN reply' = "choose a table" /\ UNCHANGED session
       ELSE IF session.await = "edit_all"
       THEN LET r == applyAllEdits(session, rehostOk)
            IN session' = r.s /\ reply' = r.reply
       ELSE IF session.await = "image_choice" /\ StartsWithHttp(text)
       THEN IF session.review = Null \/ ~rehostOk
            THEN reply' = "that URL did not work" /\ UNCHANGED session
            ELSE /\ session' = presentReview(
                                 [session EXCEPT !.review.prod.image = Rehosted("operator"),
                                                 !.await = "null"], TRUE)
                 /\ reply' = "review"
       ELSE IF \/ session.mode = "smart" /\ session.await = "blob"
               \/ session.table # "null" /\ text # "slash" /\ IsLong(text)
       THEN LET r == smartAddHandler(session, og, threw)
            IN session' = r.s /\ reply' = r.reply
       ELSE UNCHANGED <<session, reply>>
  /\ db' = <<>>
  /\ UNCHANGED nonSessionVars

\* setTextOrder behind txtapi_pollinations, _groq, _gemini, _auto, lines 1073-1088
setTextOrder ==
  /\ \E o \in Orders, threw \in BOOLEAN :
       LET s1 == [session EXCEPT !.textOrder = o, !.await = "null"]
       IN IF s1.pendingSmart # Null
          THEN LET r == resumeSmartAddAfterTextChoice(s1, threw)
               IN session' = r.s /\ reply' = r.reply
          ELSE session' = s1 /\ reply' = "text provider set"
  /\ db' = <<>>
  /\ UNCHANGED nonSessionVars

\* bot.action txtapi_cancel, lines 1089-1096
txtapi_cancel ==
  /\ session' = [session EXCEPT !.await = "null", !.pendingSmart = Null]
  /\ reply' = "what next"
  /\ db' = <<>>
  /\ UNCHANGED nonSessionVars

\* bot.action edit_text, lines 1050-1063
edit_text ==
  /\ IF session.review = Null THEN UNCHANGED <<session, reply>>
     ELSE session' = [session EXCEPT !.await = "edit_all"] /\ reply' = "edit form"
  /\ db' = <<>>
  /\ UNCHANGED nonSessionVars

\* bot.action change_image, lines 1065-1071
change_image ==
  /\ IF session.review = Null THEN UNCHANGED <<session, reply>>
     ELSE session' = [session EXCEPT !.await = "image_choice"] /\ reply' = "pick a generator"
  /\ db' = <<>>
  /\ UNCHANGED nonSessionVars

\* bot.action confirm_generate_image, lines 1299-1324
confirm_generate_image ==
  /\ \E hosted \in tryBrandImagesResults, threw \in BOOLEAN :
       IF session.review = Null THEN UNCHANGED <<session, reply>>
       ELSE IF session.review.prod.image = Null /\ threw
       THEN reply' = "an error occurred" /\ UNCHANGED session
       ELSE IF session.review.prod.image = Null /\ hosted # Null
       THEN /\ session' = presentReview([session EXCEPT !.review.prod.image = hosted], TRUE)
            /\ reply' = "review"
       ELSE /\ session' = [session EXCEPT !.await = "image_choice"]
            /\ reply' = "no official image found"
  /\ db' = <<>>
  /\ UNCHANGED nonSessionVars

\* handleImageChoice behind imgapi_pollinations, _hf, _deepai, _cloudflare, _auto,
\* lines 1326-1357
handleImageChoice ==
  /\ \E hosted \in generateBackgroundResults, threw \in BOOLEAN, rehostOk \in BOOLEAN :
       IF session.review = Null THEN UNCHANGED <<session, reply>>
       ELSE IF threw THEN reply' = "an error occurred" /\ UNCHANGED session
       ELSE /\ session' = presentReview(
                            IF hosted # Null
                            THEN [session EXCEPT !.review.prod.image = hosted,
                                                 !.await = "null"]
                            ELSE session, rehostOk)
            /\ reply' = "review"
  /\ db' = <<>>
  /\ UNCHANGED nonSessionVars

\* bot.action imgapi_cancel, lines 1358-1364
imgapi_cancel ==
  /\ \E rehostOk \in BOOLEAN :
       session' = presentReview([session EXCEPT !.await = "null"], rehostOk)
  /\ reply' = IF session.review = Null THEN "image generation cancelled" ELSE "review"
  /\ db' = <<>>
  /\ UNCHANGED nonSessionVars

\* processIncomingImage behind bot.on photo and document, lines 1366-1388.  bot.js
\* has no binding for tgFileUrl: line 1370 throws a ReferenceError, which line
\* 1381 catches, so nothing after it runs.
processIncomingImage ==
  /\ LET table == IF session.review # Null THEN session.review.table ELSE session.table
     IN reply' = IF table = "null" THEN "choose a table first"
                 ELSE "could not process the image"
  /\ UNCHANGED session
  /\ db' = <<>>
  /\ UNCHANGED nonSessionVars

\* bot.action cancel, lines 1390-1396
cancel ==
  /\ session' = [session EXCEPT !.review = Null, !.mode = "null"]
  /\ reply' = "cancelled"
  /\ db' = <<>>
  /\ UNCHANGED nonSessionVars

\* the database requests of save, lines 1416-1427: an update, or the
\* duplicate lookup and then the insert
saveRequests(updateId, outcome) ==
  IF updateId THEN <<"update">>
  ELSE IF outcome = "exists" THEN <<"select">>
  ELSE <<"select", "insert">>

afterSaveKeepsReview(s) == [s EXCEPT !.await = "null", !.mode = "null"]

\* line 1431
afterSave(s) == [s EXCEPT !.review = Null, !.await = "null", !.mode = "null"]

\* bot.action save, lines 1398-1437
save ==
  /\ \E outcome \in {"exists", "error", "saved"} :
       IF session.review = Null
       THEN db' = <<>> /\ UNCHANGED <<session, reply>>
       ELSE /\ db' = saveRequests(session.review.updateId, outcome)
            /\ IF outcome = "exists" /\ ~session.review.updateId
               THEN reply' = "this product already exists" /\ UNCHANGED session
               ELSE IF outcome = "saved"
               THEN session' = afterSave(session) /\ reply' = "what next"
               ELSE reply' = "error saving" /\ UNCHANGED session
  /\ UNCHANGED nonSessionVars

\* rowToReview, lines 1439-1455, and the review of line 1470
rowToReview(table, image) ==
  [prod |-> [image |-> image], table |-> table, updateId |-> TRUE,
   ogImageFromPage |-> Null]

\* bot.command update, lines 1457-1473.  It is registered after bot.on text, which
\* sees the message first and passes it on only through next() of line 1296.
update ==
  /\ session.await \notin {"choose_text_api", "edit_all"}
  /\ ~(session.mode = "smart" /\ session.await = "blob")
  /\ \E row \in {"error", "not found", "found"}, image \in RowImages, rehostOk \in BOOLEAN :
       IF session.table = "null"
       THEN reply' = "choose table first" /\ db' = <<>> /\ UNCHANGED session
       ELSE IF row # "found"
       THEN reply' = row /\ db' = <<"select">> /\ UNCHANGED session
       ELSE /\ session' = presentReview(
                            [session EXCEPT !.review = rowToReview(session.table, image),
                                            !.mode = "null", !.await = "null"], rehostOk)
            /\ reply' = "review"
            /\ db' = <<"select">>
  /\ UNCHANGED nonSessionVars

SessionNext ==
  \/ start
  \/ set_table
  \/ smartadd
  \/ again_smartadd
  \/ again_done
  \/ onText
  \/ setTextOrder
  \/ txtapi_cancel
  \/ edit_text
  \/ change_image
  \/ confirm_generate_image
  \/ handleImageChoice
  \/ imgapi_cancel
  \/ processIncomingImage
  \/ cancel
  \/ save
  \/ update

-----------------------------------------------------------------------------
(* enrichWithAI called with the gemini provider, as a function of the       *)
(* rotation index it starts from (src/bot.js 242-291, 397-427)              *)

\* the request made with key k: a key that is not usable is answered with an
\* error status, a usable one with the provider's answer
KeyBackend(usable, k, content) ==
  Backend(IF usable[k] THEN "ok" ELSE "http error", content)

geminiTextJSONOneKey(index, n, usable, content) ==
  IF n = 0 THEN Null
  ELSE Catch(geminiTurn(KeyBackend(usable, index % n, content))).value

\* the loop of geminiTextJSON, lines 255-290, from turn i on
RECURSIVE geminiLoop(_, _, _, _, _)
geminiLoop(i, index, n, usable, content) ==
  IF i >= n THEN Null
  ELSE LET r == geminiTurn(KeyBackend(usable, index % n, content))
       IN IF ~r.threw THEN r.value
          ELSE geminiLoop(i + 1, index + 1, n, usable, content)

\* geminiTextJSON, lines 243-291, with _geminiIndex = index and n keys
geminiTextJSON(index, n, usable, content) ==
  IF n = 0 THEN Null ELSE geminiLoop(0, index, n, usable, content)

\* what enrichWithAI makes of the provider's value j: no JSON, a TypeError on
\* a primitive, or the category and tags of the object returned
EnrichOutcome(j) ==
  IF Falsy(j) THEN [kind |-> "no-json"]
  ELSE IF j.kind \notin {"object", "array"} THEN [kind |-> "rejected"]
  ELSE [kind |-> "enriched",
        category |-> Finalize(Coerce(j)).category,
        tags |-> Coerce(j).tags]

-----------------------------------------------------------------------------
(* The helper functions, each applied once to an input (src/bot.js 184-211, *)
(* 373-374, 804-850)                                                        *)

\* entries of a tags array: spellings that differ in case and in surrounding
\* whitespace, a blank entry and a missing one
TagEntries ==
  {Str("Spotify"), <<" ", "spotify">>, Str("Music"), Str("music"), <<" ">>, Undef}

\* prod.tags and ai.tags of the save handler, lines 1405-1406
SpotifyTags == <<Str("Spotify"), <<" ", "spotify">>, Str("Music")>>

MusicTags == <<Str("music"), Str("Plan")>>

TagArrays == SeqsUpTo(TagEntries, MaxTags) \cup {SpotifyTags, MusicTags}

HelperInit ==
  /\ fn = "none"
  /\ args = <<>>
  /\ ret = Null

HelperIdle == HelperInit

\* tags: uniqMerge(prod.tags, ai.tags), lines 1405-1406
ApplyUniqMerge ==
  /\ fn = "none"
  /\ \E a \in TagArrays, b \in TagArrays :
       /\ args' = <<a, b>>
       /\ ret' = uniqMerge(<<a, b>>)
  /\ fn' = "uniqMerge"
  /\ UNCHANGED nonHelperVars

\* the price strings: short strings of digits, separators and other
\* characters, and the two of the enrichment examples
PriceChars == {"0", "1", "5", ",", ".", "x"}

RupeePrice ==
  <<"R", "1", ",", "2", "9", "9", ".", "5", "0", " ", "f", "o", "r", " ",
    "1", " ", "y", "e", "a", "r">>

FreePrice == <<"f", "r", "e", "e">>

PriceStrings ==
  SeqsUpTo(PriceChars, MaxPriceLen) \cup {RupeePrice, FreePrice, Undef}

ApplyParsePrice ==
  /\ fn = "none"
  /\ \E raw \in PriceStrings :
       /\ args' = <<raw>>
       /\ ret' = parsePriceChars(raw)
  /\ fn' = "parsePrice"
  /\ UNCHANGED nonHelperVars

\* result hosts, as hostOf gives them
NetflixCom == <<"n", "e", "t", "f", "l", "i", "x", ".", "c", "o", "m">>

NetflixBlog ==
  <<"n", "e", "t", "f", "l", "i", "x", "-", "b", "l", "o", "g", ".",
    "e", "x", "a", "m", "p", "l", "e">>

UnrelatedOrg ==
  <<"u", "n", "r", "e", "l", "a", "t", "e", "d", ".", "o", "r", "g">>

NetflxIo == <<"n", "e", "t", "f", "l", "x", ".", "i", "o">>

NetflixNet == <<"n", "e", "t", "f", "l", "i", "x", ".", "n", "e", "t">>

Localhost == <<"l", "o", "c", "a", "l", "h", "o", "s", "t">>

ResultHosts ==
  {NetflixCom, NetflixBlog, UnrelatedOrg, NetflxIo, NetflixNet, Localhost}

\* product names: "Netflix", "Net flix" and the empty name
Netflix == <<"N", "e", "t", "f", "l", "i", "x">>

ProductNames ==
  {Netflix, <<"N", "e", "t", " ", "f", "l", "i", "x">>, <<>>}

ApplyOfficialHost ==
  /\ fn = "none"
  /\ \E name \in ProductNames, hosts \in SeqsUpTo(ResultHosts, MaxHosts) :
       /\ args' = <<name, hosts>>
       /\ ret' = officialHost(name, hosts)
  /\ fn' = "officialHost"
  /\ UNCHANGED nonHelperVars

\* ctx.session.textOrder, lines 1154 and 1186: null, or an array of names
OrderParams ==
  {Null, [kind |-> "string"]} \cup
  {OrderArray(o) : o \in SeqsUpTo({Str("groq"), Str("gemini"),
                                   Str("pollinations")}, 2)}

\* values of TEXT_PROVIDER_ORDER: unset, or a string of names, commas and
\* blanks
OrderEnvs ==
  {Undef} \cup SeqsUpTo({"gemini", "groq", ",", " "}, MaxEnvLen)

ApplyResolveProviderOrder ==
  /\ fn = "none"
  /\ \E param \in OrderParams, env \in OrderEnvs :
       /\ args' = <<param, env>>
       /\ ret' = resolveProviderOrder(param, env)
  /\ fn' = "resolveProviderOrder"
  /\ UNCHANGED nonHelperVars

\* two calls of enrichWithAI, each with gemini as the provider; the keys, the
\* usable ones among them and the provider's answer are the same for both,
\* the rotation index each starts from is any
ApplyEnrichTwice ==
  /\ fn = "none"
  /\ \E n \in 0..MaxGeminiKeys, content \in Contents :
       \E usable \in [0..(n - 1) -> BOOLEAN], first \in 0..n, second \in 0..n :
         /\ args' = [n |-> n, usable |-> usable, content |-> content,
                     first |-> first, second |-> second]
         /\ ret' = <<EnrichOutcome(geminiTextJSON(first, n, usable, content)),
                     EnrichOutcome(geminiTextJSON(second, n, usable, content))>>
  /\ fn' = "enrichWithAI"
  /\ UNCHANGED nonHelperVars

\* The retry settings, lines 209-210.  A JavaScript number here is
\* [nan |-> it is NaN, n |-> its value otherwise]
NaN == [nan |-> TRUE, n |-> 0]

Num(n) == [nan |-> FALSE, n |-> n]

\* parseInt(str, 10): leading white space is skipped, then an optional sign,
\* then the longest run of digits; NaN when there is no digit
parseInt(str) ==
  LET body == SubSeq(str, Len(PrefixIn(str, {" "})) + 1, Len(str))
      signed == body # <<>> /\ Head(body) \in {"-", "+"}
      digits == PrefixIn(IF signed THEN Tail(body) ELSE body, DigitChars)
  IN IF digits = <<>> THEN NaN
     ELSE IF signed /\ Head(body) = "-" THEN Num(0 - DigitsValue(digits))
     ELSE Num(DigitsValue(digits))

\* Math.max(a, b): NaN when either is NaN
MathMax(a, b) ==
  IF a.nan \/ b.nan THEN NaN
  ELSE IF a.n >= b.n THEN a ELSE b

\* Math.max(1, parseInt(process.env.TEXT_RETRIES || '2', 10)), and the same
\* for IMAGE_RETRIES; an unset variable and the empty string are falsy
retriesSetting(env) ==
  MathMax(Num(1), parseInt(IF env = Undef \/ env = <<>> THEN <<"2">> ELSE env))

\* how often the loop 'for (let i=0;i<attempts;i++)' of tryWithRetries can
\* call fn: i < NaN is false
tryWithRetriesTurns(attempts) ==
  IF attempts.nan \/ attempts.n < 0 THEN 0 ELSE attempts.n

\* values of the setting: unset, empty, 0, negative, positive, with a
\* fraction, padded, followed by text, and text without a digit
RetrySettings ==
  {Undef, <<>>, <<"0">>, <<"-", "1">>, <<"3">>, <<"2", ".", "5">>, <<" ", "4">>,
   <<"4", "x">>, <<"a", "b", "c">>, <<"t", "w", "o">>}

ApplyRetriesSetting ==
  /\ fn = "none"
  /\ \E env \in RetrySettings :
       /\ args' = <<env>>
       /\ ret' = [attempts |-> retriesSetting(env),
                  turns |-> tryWithRetriesTurns(retriesSetting(env))]
  /\ fn' = "retriesSetting"
  /\ UNCHANGED nonHelperVars

\* fetchWebsiteRaw (src/bot.js 213), texts by their lengths.  A response is
\* [net |-> "throw", "http error" or "ok", html |-> the length of the body,
\*  cleaned |-> the length of toText(body)]
MinFetchedText == 200

ProxyTextMax == 20000

EmptyPage == [html |-> 0, text |-> 0]

fetchWebsiteRawAtLeast(url, direct, proxy) ==
  IF url = "" THEN [requests |-> <<>>, threw |-> FALSE, page |-> EmptyPage]
  ELSE IF direct.net = "ok" /\ direct.cleaned >= MinFetchedText
  THEN [requests |-> <<"direct">>, threw |-> FALSE,
        page |-> [html |-> direct.html, text |-> direct.cleaned]]
  ELSE IF proxy.net = "ok" /\ proxy.html >= MinFetchedText
  THEN [requests |-> <<"direct", "proxy">>, threw |-> FALSE,
        page |-> [html |-> 0, text |-> IF proxy.html < ProxyTextMax THEN proxy.html
                                ELSE ProxyTextMax]]
  ELSE [requests |-> <<"direct", "proxy">>, threw |-> FALSE, page |-> EmptyPage]

\* the direct request and toText of its body; then the request through
\* r.jina.ai, whose body is taken as it is; every throw is caught
fetchWebsiteRaw(url, direct, proxy) ==
  IF url = "" THEN [requests |-> <<>>, threw |-> FALSE, page |-> EmptyPage]
  ELSE IF direct.net = "ok" /\ direct.cleaned > MinFetchedText
  THEN [requests |-> <<"direct">>, threw |-> FALSE,
        page |-> [html |-> direct.html, text |-> direct.cleaned]]
  ELSE IF proxy.net = "ok" /\ proxy.html > MinFetchedText
  THEN [requests |-> <<"direct", "proxy">>, threw |-> FALSE,
        page |-> [html |-> 0, text |-> IF proxy.html < ProxyTextMax THEN proxy.html
                                ELSE ProxyTextMax]]
  ELSE [requests |-> <<"direct", "proxy">>, threw |-> FALSE, page |-> EmptyPage]

\* responses: no response, a non-2xx status, and 2xx bodies on both sides of
\* the threshold, before and after the markup is removed
PageResponses ==
  {[net |-> "throw", html |-> 0, cleaned |-> 0],
   [net |-> "http error", html |-> 900, cleaned |-> 300]}
  \cup {[net |-> "ok", html |-> h, cleaned |-> c] :
          h \in {0, 200, 201, 900, 50000}, c \in {0, 200, 201, 900, 50000}}

FetchedUrls == {"", "example.com", "https://example.com/pricing"}

ApplyFetchWebsiteRaw ==
  /\ fn = "none"
  /\ \E url \in FetchedUrls, direct \in PageResponses, proxy \in PageResponses :
       /\ direct.cleaned <= direct.html
       /\ args' = <<url, direct, proxy>>
       /\ ret' = fetchWebsiteRaw(url, direct, proxy)
  /\ fn' = "fetchWebsiteRaw"
  /\ UNCHANGED nonHelperVars

\* a provider object whose tags and features are both one delimited string
FeaturesAsString ==
  Obj(<<"x">>, Undef, Undef, Undef, <<"s200">>, StrVal(<<"a", ";", " ", "b">>),
      <<"Streaming">>, Undef, StrVal(<<"f1", ",", " ", "f2", ",", " ", "f3">>))

\* lines 397-402 of enrichWithAI, applied to a provider's object
ApplyCoerce ==
  /\ fn = "none"
  /\ \E j \in JsonObjects \cup {FeaturesAsString} :
       /\ args' = <<j>>
       /\ ret' = Coerce(j)
  /\ fn' = "Coerce"
  /\ UNCHANGED nonHelperVars

HelperNext ==
  \/ ApplyRetriesSetting
  \/ ApplyFetchWebsiteRaw
  \/ ApplyCoerce
  \/ ApplyUniqMerge
  \/ ApplyEnrichTwice
  \/ ApplyResolveProviderOrder
  \/ ApplyOfficialHost
  \/ ApplyParsePrice

-----------------------------------------------------------------------------
(* searchWebForProduct: the evidence bundle (src/bot.js 823-850), by the    *)
(* lengths of the strings                                                   *)

\* at most 8 results from each of the two searches and 9 product paths,
\* lines 807-808 and 820
MaxUrlCount == 25

\* if (count >= 12) break, line 826
MaxChunks == 12

\* text.slice(0, 4000), line 830
ChunkTextMax == 4000

\* text?.length > 200, line 829
MinPageText == 200

\* .slice(0, 20000), line 836
BundleMax == 20000

\* bundle.length < 800, line 838
ThinBundle == 800

\* wikiText?.length > 400, line 842
MinWikiText == 400

\* extract?.slice(0, 12000), line 801
WikiExtractMax == 12000

Min(a, b) == IF a < b THEN a ELSE b

\* lengths of a URL of the set
UrlLens == {20, 100}

\* what fetchWebsiteRaw gives for a page: a text of this length, or -1 when
\* it throws or gives no text
PageTexts == {-1, 0, 200, 201, 4000, 50000}

\* length of the title wikiBestPage returns once URI-encoded; 0 for null
WikiTitles == {0, 4, 765}

\* length of the extract of the page; 0 also when the request fails
WikiExtracts == {0, 400, 401, 12000, 50000}

\* length of "SOURCE: " + u + "\n" + text.slice(0, 4000), line 830
ChunkLen(ulen, tlen) == 8 + ulen + 1 + Min(tlen, ChunkTextMax)

\* length of "\n\nSOURCE: https://en.wikipedia.org/wiki/" + title + "\n" +
\* wikiText, line 843
WikiBlockLen(title, wlen) == 2 + 8 + 30 + title + 1 + wlen

needsWikiAlways(b) == TRUE

\* bundle.length < 800, line 838
needsWiki(b) == b < ThinBundle

\* the searches ask for 8 links each, lines 807-808; line 819 lists 9 paths
SearchMax == 8

OfficialPaths == 9

NetworkSteps == {"html", "lite", "page", "wikiSearch", "wikiExtract"}

NoSteps == [k \in NetworkSteps |-> "none"]

\* what a search backend answers: no response, a non-2xx status, or a page
\* with so many result links
SearchResponses ==
  {[net |-> "throw", links |-> 0], [net |-> "http error", links |-> 0]}
  \cup {[net |-> "ok", links |-> n] : n \in {0, 1, 8, 30}}

ddgSearchHTMLUncaught(r) ==
  [threw |-> r.net = "throw",
   links |-> IF r.net = "ok" THEN Min(r.links, SearchMax) ELSE 0]

\* lines 765-775: the links of the result page, at most max; [] on any failure
ddgSearchHTML(r) ==
  [threw |-> FALSE,
   links |-> IF r.net = "ok" THEN Min(r.links, SearchMax) ELSE 0]

\* lines 776-786
ddgSearchLite(r) ==
  [threw |-> FALSE,
   links |-> IF r.net = "ok" THEN Min(r.links, SearchMax) ELSE 0]

EvidenceInit ==
  /\ wpc = "searchHTML"
  /\ urlsLeft = 0
  /\ count = 0
  /\ chunksLen = 0
  /\ bundle = 0
  /\ wikiUsed = FALSE
  /\ fetches = 0
  /\ steps = NoSteps

EvidenceIdle ==
  /\ wpc = "idle"
  /\ urlsLeft = 0
  /\ count = 0
  /\ chunksLen = 0
  /\ bundle = 0
  /\ wikiUsed = FALSE
  /\ fetches = 0
  /\ steps = NoSteps

\* line 807: the first search; its links are the first candidate URLs
SearchHTML ==
  /\ wpc = "searchHTML"
  /\ \E r \in SearchResponses :
       /\ wpc' = IF ddgSearchHTML(r).threw THEN "rejected" ELSE "searchLite"
       /\ urlsLeft' = ddgSearchHTML(r).links
       /\ steps' = [steps EXCEPT !["html"] = IF r.net = "ok" THEN "ok" ELSE "failed"]
  /\ UNCHANGED <<count, chunksLen, bundle, wikiUsed, fetches>>
  /\ UNCHANGED nonEvidenceVars

\* lines 808-821: the second search, whose links are added to the set (all of
\* them new, or all of them known), then the paths of the official host when
\* some host is within distance 3 of the product name
SearchLite ==
  /\ wpc = "searchLite"
  /\ \E r \in SearchResponses, allNew \in BOOLEAN, official \in BOOLEAN :
       LET found == urlsLeft + (IF allNew THEN ddgSearchLite(r).links ELSE 0)
       IN /\ wpc' = IF ddgSearchLite(r).threw THEN "rejected" ELSE "fetching"
          /\ urlsLeft' = found + (IF official /\ found > 0 THEN OfficialPaths ELSE 0)
          /\ steps' = [steps EXCEPT !["lite"] = IF r.net = "ok" THEN "ok" ELSE "failed"]
  /\ UNCHANGED <<count, chunksLen, bundle, wikiUsed, fetches>>
  /\ UNCHANGED nonEvidenceVars

\* one iteration of the page loop, lines 825-834
FetchPage ==
  /\ wpc = "fetching"
  /\ urlsLeft > 0
  /\ count < MaxChunks
  /\ \E ulen \in UrlLens, t \in PageTexts :
       IF t > MinPageText
       THEN /\ chunksLen' = chunksLen + (IF count > 0 THEN 2 ELSE 0)
                              + ChunkLen(ulen, t)
            /\ count' = count + 1
            /\ steps' = [steps EXCEPT !["page"] = "ok"]
       ELSE /\ UNCHANGED <<chunksLen, count>>
            /\ steps' = [steps EXCEPT !["page"] = IF @ = "ok" THEN "ok" ELSE "failed"]
  /\ urlsLeft' = urlsLeft - 1
  /\ fetches' = fetches + 1
  /\ UNCHANGED <<wpc, bundle, wikiUsed>>
  /\ UNCHANGED nonEvidenceVars

\* the loop ends; chunks.join('\n\n').slice(0, 20000), line 836; the function
\* returns at line 849 unless the bundle is thin, line 838
JoinChunks ==
  /\ wpc = "fetching"
  /\ urlsLeft = 0 \/ count >= MaxChunks
  /\ bundle' = Min(chunksLen, BundleMax)
  /\ wpc' = IF needsWiki(bundle') THEN "wiki" ELSE "returned"
  /\ UNCHANGED <<urlsLeft, count, chunksLen, wikiUsed, fetches, steps>>
  /\ UNCHANGED nonEvidenceVars

\* wikiBestPage and wikiExtractByTitle, lines 839-845 and 795-803
WikiFallback ==
  /\ wpc = "wiki"
  /\ \E title \in WikiTitles, extract \in WikiExtracts :
       LET wikiText == Min(extract, WikiExtractMax)
       IN /\ IF title # 0 /\ wikiText > MinWikiText
             THEN /\ bundle' = bundle + WikiBlockLen(title, wikiText)
                  /\ wikiUsed' = TRUE
             ELSE UNCHANGED <<bundle, wikiUsed>>
          /\ steps' = [steps EXCEPT
                         !["wikiSearch"] = IF title # 0 THEN "ok" ELSE "failed",
                         !["wikiExtract"] = IF title = 0 THEN "none"
                                            ELSE IF extract > 0 THEN "ok"
                                            ELSE "failed"]
  /\ wpc' = "returned"
  /\ UNCHANGED <<urlsLeft, count, chunksLen, fetches>>
  /\ UNCHANGED nonEvidenceVars

EvidenceNext ==
  \/ SearchHTML
  \/ SearchLite
  \/ FetchPage
  \/ JoinChunks
  \/ WikiFallback

-----------------------------------------------------------------------------
(* geminiTextJSON called concurrently (src/bot.js 242-291): the calls share *)
(* _geminiIndex and yield at the await of each request                      *)

GeminiCalls == 1..MaxCalls

RaceInit ==
  /\ poolSize \in 1..MaxGeminiKeys
  /\ sharedIndex \in 0..(poolSize - 1)
  /\ cpc = [c \in GeminiCalls |-> "loop"]
  /\ ci = [c \in GeminiCalls |-> 0]
  /\ ckey = [c \in GeminiCalls |-> 0]
  /\ ctried = [c \in GeminiCalls |-> {}]
  /\ cresult = [c \in GeminiCalls |-> "none"]

RaceIdle ==
  /\ poolSize = 1
  /\ sharedIndex = 0
  /\ cpc = [c \in GeminiCalls |-> "returned"]
  /\ ci = [c \in GeminiCalls |-> 0]
  /\ ckey = [c \in GeminiCalls |-> 0]
  /\ ctried = [c \in GeminiCalls |-> {}]
  /\ cresult = [c \in GeminiCalls |-> "none"]

\* lines 255-258: the loop test, the key at _geminiIndex++ and the request,
\* up to the await; line 290 when the loop is over
GeminiRequest ==
  /\ \E c \in GeminiCalls :
       /\ cpc[c] = "loop"
       /\ IF ci[c] < poolSize
          THEN /\ ckey' = [ckey EXCEPT ![c] = sharedIndex]
               /\ ctried' = [ctried EXCEPT ![c] = @ \cup {sharedIndex}]
               /\ sharedIndex' = (sharedIndex + 1) % poolSize
               /\ cpc' = [cpc EXCEPT ![c] = "fetch"]
               /\ UNCHANGED cresult
          ELSE /\ cpc' = [cpc EXCEPT ![c] = "returned"]
               /\ cresult' = [cresult EXCEPT ![c] = "null"]
               /\ UNCHANGED <<ckey, ctried, sharedIndex>>
  /\ UNCHANGED <<poolSize, ci>>
  /\ UNCHANGED nonRaceVars

\* lines 268-288: the response arrives; a failure goes on to the next turn,
\* an answer that parses is returned
GeminiResponse ==
  /\ \E c \in GeminiCalls, answer \in {"failure", "object"} :
       /\ cpc[c] = "fetch"
       /\ IF answer = "failure"
          THEN /\ ci' = [ci EXCEPT ![c] = @ + 1]
               /\ cpc' = [cpc EXCEPT ![c] = "loop"]
               /\ UNCHANGED cresult
          ELSE /\ cpc' = [cpc EXCEPT ![c] = "returned"]
               /\ cresult' = [cresult EXCEPT ![c] = "object"]
               /\ UNCHANGED ci
  /\ UNCHANGED <<poolSize, sharedIndex, ckey, ctried>>
  /\ UNCHANGED nonRaceVars

RaceNext ==
  \/ GeminiRequest
  \/ GeminiResponse

-----------------------------------------------------------------------------
(* The provider loops seen call by call: a call starts, and completes later *)
(* (tryWithRetries 208, runTextProvidersWithOrder 430-450,                  *)
(* generateBackgroundWithOrder 656-674)                                     *)

SequenceInit ==
  /\ seqFn \in {"enrichWithAI", "generateBackgroundWithOrder"}
  /\ seqOrder \in IF seqFn = "enrichWithAI" THEN Orders
                  ELSE {IF Len(o) > 0 THEN o ELSE defaultOrder : o \in ImageOrders}
  /\ seqPc = "loop"
  /\ seqIdx = 1
  /\ seqAttempt = 0
  /\ started = 0
  /\ inFlight = {}

SequenceIdle ==
  /\ seqFn = "none"
  /\ seqOrder = <<>>
  /\ seqPc = "done"
  /\ seqIdx = 1
  /\ seqAttempt = 0
  /\ started = 0
  /\ inFlight = {}

seqRetries == IF seqFn = "enrichWithAI" THEN TEXT_RETRIES ELSE IMAGE_RETRIES

\* the most calls a run can make: every provider on every attempt, and the
\* Hugging Face fallback
seqCallCap == Len(seqOrder) * seqRetries + 1

awaitFnNotAwaited == "loop"

\* 'return await fn(i)' at line 208, awaited in turn at lines 434 and 659-667:
\* the loop does not go on until the call has completed
awaitFn == "awaiting"

\* fn(i) is called: the adapter sends its request
CallStart ==
  /\ seqPc \in {"loop", "fallback"}
  /\ started < seqCallCap
  /\ started' = started + 1
  /\ inFlight' = inFlight \cup {started + 1}
  /\ seqPc' = IF seqPc = "loop" THEN awaitFn ELSE "awaitingFallback"
  /\ UNCHANGED <<seqFn, seqOrder, seqIdx, seqAttempt>>
  /\ UNCHANGED nonSequenceVars

\* where the loops go when the provider at seqIdx gave nothing
seqNextProvider ==
  /\ seqIdx' = seqIdx + 1
  /\ seqAttempt' = 0
  /\ seqPc' = IF seqIdx < Len(seqOrder) THEN "loop"
              ELSE IF seqFn = "enrichWithAI" THEN "fallback" ELSE "done"

\* the call completes: with a value, with null, or by throwing.  The text
\* wrapper of line 438 turns null into a throw; a throw is retried
CallEnd ==
  /\ seqPc = "awaiting"
  /\ \E c \in inFlight, out \in {"value", "null", "throw"} :
       /\ inFlight' = inFlight \ {c}
       /\ IF out = "value"
          THEN /\ seqPc' = "done"
               /\ UNCHANGED <<seqIdx, seqAttempt>>
          ELSE IF out = "throw" \/ seqFn = "enrichWithAI"
          THEN IF tryWithRetriesNext(seqAttempt, seqRetries) = "retry"
               THEN /\ seqAttempt' = seqAttempt + 1
                    /\ seqPc' = "loop"
                    /\ UNCHANGED seqIdx
               ELSE seqNextProvider
          ELSE seqNextProvider
  /\ UNCHANGED <<seqFn, seqOrder, started>>
  /\ UNCHANGED nonSequenceVars

\* line 382: the Hugging Face call completes, and enrichWithAI goes on
FallbackEnd ==
  /\ seqPc = "awaitingFallback"
  /\ \E c \in inFlight : inFlight' = inFlight \ {c}
  /\ seqPc' = "done"
  /\ UNCHANGED <<seqFn, seqOrder, seqIdx, seqAttempt, started>>
  /\ UNCHANGED nonSequenceVars

SequenceNext ==
  \/ CallStart
  \/ CallEnd
  \/ FallbackEnd

-----------------------------------------------------------------------------
(* bot.action save of an add flow, await by await (src/bot.js 1398-1437):   *)
(* several save updates of one session can be in progress at once           *)

MaxSaves == 3

Saves == 1..MaxSaves

SaveInit ==
  /\ rows \in 0..2
  /\ sreview = TRUE
  /\ spc = [h \in Saves |-> "start"]
  /\ sfound = [h \in Saves |-> FALSE]

SaveIdle ==
  /\ rows = 0
  /\ sreview = FALSE
  /\ spc = [h \in Saves |-> "done"]
  /\ sfound = [h \in Saves |-> FALSE]

\* select('id').eq(name).eq(price).maybeSingle(), line 1419: data is the row
\* when exactly one row matches and the request succeeds, and null otherwise
maybeSingle(n, ok) == ok /\ n = 1

\* lines 1399-1419: the guard on the review, then the lookup is sent
SaveBegin ==
  /\ \E h \in Saves :
       /\ spc[h] = "start"
       /\ spc' = [spc EXCEPT ![h] = IF sreview THEN "select" ELSE "done"]
  /\ UNCHANGED <<rows, sreview, sfound>>
  /\ UNCHANGED nonSaveVars

\* lines 1419-1424: the lookup answers; a row found ends the save
SaveLookup ==
  /\ \E h \in Saves, ok \in BOOLEAN :
       /\ spc[h] = "select"
       /\ sfound' = [sfound EXCEPT ![h] = maybeSingle(rows, ok)]
       /\ spc' = [spc EXCEPT ![h] = IF maybeSingle(rows, ok) THEN "done" ELSE "insert"]
  /\ UNCHANGED <<rows, sreview>>
  /\ UNCHANGED nonSaveVars

\* lines 1424-1432: the insert answers; on success the review is cleared
SaveInsert ==
  /\ \E h \in Saves, ok \in BOOLEAN :
       /\ spc[h] = "insert"
       /\ spc' = [spc EXCEPT ![h] = "done"]
       /\ rows' = IF ok THEN rows + 1 ELSE rows
       /\ sreview' = IF ok THEN FALSE ELSE sreview
  /\ UNCHANGED sfound
  /\ UNCHANGED nonSaveVars

SaveNext ==
  \/ SaveBegin
  \/ SaveLookup
  \/ SaveInsert

-----------------------------------------------------------------------------
(* The admin and pause middleware, the idle timers and resume_bot           *)
(* (src/bot.js 150-178, 936-954, 1020-1027)                                 *)

MaxUpdates == 3

\* the ids of line 126, and the senders of updates: 0 is an update without
\* ctx.from, 3 is a user who is no admin
ADMIN_IDS == {1, 2}

Senders == {0, 1, 2, 3}

UpdateKinds == {"message", "resume_bot", "callback", "other"}

isAdminAnyone(sender) == sender # 0

\* line 178
isAdmin(sender) == sender # 0 /\ sender \in ADMIN_IDS

clearIdleTimerKeepsTimeout(p, uid) == p

\* lines 153-156, on the set of pending timeouts: clearTimeout of the user's
\* handle
clearIdleTimer(p, uid) == {t \in p : t.user # uid}

\* lines 169-175 on the pending timeouts, n timeouts having been set before
startIdleTimer(p, uid, n) ==
  IF timersOn THEN clearIdleTimer(p, uid) \cup {[id |-> n + 1, user |-> uid]}
  ELSE p

GateInit ==
  /\ timersOn \in BOOLEAN
  /\ sessions = [u \in Senders |-> "none"]
  /\ idleTimers = [u \in Senders |-> 0]
  /\ pending = {}
  /\ timerCount = 0
  /\ fired = 0
  /\ updates = 0
  /\ handled = [sender |-> 0, kind |-> "none", next |-> FALSE]

GateIdle ==
  /\ timersOn = FALSE
  /\ sessions = [u \in Senders |-> "none"]
  /\ idleTimers = [u \in Senders |-> 0]
  /\ pending = {}
  /\ timerCount = 0
  /\ fired = 0
  /\ updates = 0
  /\ handled = [sender |-> 0, kind |-> "none", next |-> FALSE]

\* lines 944-946: what gets a paused session going again
Resumes(kind) == kind \in {"resume_bot", "message"}

\* one update through the middleware of lines 937-954 and, for resume_bot,
\* the handler of lines 1020-1027
Update ==
  /\ updates < MaxUpdates
  /\ updates' = updates + 1
  /\ \E sender \in Senders, kind \in UpdateKinds :
       IF ~isAdmin(sender)
       THEN \* line 938
            /\ handled' = [sender |-> sender, kind |-> kind, next |-> FALSE]
            /\ UNCHANGED <<sessions, idleTimers, pending, timerCount>>
       ELSE IF sessions[sender] = "paused" /\ ~Resumes(kind)
       THEN \* line 948
            /\ handled' = [sender |-> sender, kind |-> kind, next |-> FALSE]
            /\ UNCHANGED <<sessions, idleTimers, pending, timerCount>>
       ELSE LET sets == IF ~timersOn THEN 0
                        ELSE IF kind = "resume_bot" THEN 2 ELSE 1
                first == startIdleTimer(pending, sender, timerCount)
            IN /\ handled' = [sender |-> sender, kind |-> kind, next |-> TRUE]
               /\ sessions' = [sessions EXCEPT ![sender] = "running"]
               /\ pending' = IF kind = "resume_bot"
                             THEN startIdleTimer(first, sender, timerCount + 1)
                             ELSE first
               /\ timerCount' = timerCount + sets
               /\ idleTimers' = IF sets = 0 THEN idleTimers
                                ELSE [idleTimers EXCEPT ![sender] = timerCount + sets]
  /\ UNCHANGED <<timersOn, fired>>
  /\ UNCHANGED nonGateVars

\* a pending timeout fires: triggerPause, lines 158-166
triggerPause ==
  /\ \E t \in pending :
       /\ pending' = pending \ {t}
       /\ fired' = t.id
       /\ sessions' = [sessions EXCEPT ![t.user] = "paused"]
  /\ UNCHANGED <<timersOn, idleTimers, timerCount, updates, handled>>
  /\ UNCHANGED nonGateVars

GateNext ==
  \/ Update
  \/ triggerPause

-----------------------------------------------------------------------------
(* Specifications: one component runs, the others are at rest *)

TextIdle ==
  /\ textHints = <<>>
  /\ providerOrder = <<>>
  /\ combinedLen = 0
  /\ tpc = "idle"
  /\ pIdx = 1
  /\ attempt = 0
  /\ calls = <<>>
  /\ lastAnswer = "none"
  /\ sleeps = <<>>
  /\ json = Null
  /\ provider = "none"
  /\ detailCalls = 0
  /\ result = Null

ImageIdle ==
  /\ ifn = "none"
  /\ hasDomain = FALSE
  /\ order = <<>>
  /\ ipc = "idle"
  /\ iIdx = 1
  /\ iAttempt = 0
  /\ tiers = <<>>
  /\ adapterCalls = <<>>
  /\ rehosts = <<>>
  /\ card = "none"
  /\ iresult = Null

InitText == TextInit /\ ImageIdle /\ SessionInit /\ AdapterIdle /\ HelperIdle
  /\ EvidenceIdle
  /\ RaceIdle
  /\ SequenceIdle
  /\ SaveIdle
  /\ GateIdle

SpecText == InitText /\ [][TextNext]_vars

\* every outbound call returns or times out: a step that can be taken is taken
SpecTextFair == SpecText /\ WF_vars(TextNext)

InitImage == ImageInit /\ TextIdle /\ SessionInit /\ AdapterIdle /\ HelperIdle
  /\ EvidenceIdle
  /\ RaceIdle
  /\ SequenceIdle
  /\ SaveIdle
  /\ GateIdle

SpecImage == InitImage /\ [][ImageNext]_vars

InitSession == SessionInit /\ TextIdle /\ ImageIdle /\ AdapterIdle /\ HelperIdle
  /\ EvidenceIdle
  /\ RaceIdle
  /\ SequenceIdle
  /\ SaveIdle
  /\ GateIdle

SpecSession == InitSession /\ [][SessionNext]_vars

InitAdapter == AdapterInit /\ TextIdle /\ ImageIdle /\ SessionInit /\ HelperIdle
  /\ EvidenceIdle
  /\ RaceIdle
  /\ SequenceIdle
  /\ SaveIdle
  /\ GateIdle

SpecAdapter == InitAdapter /\ [][AdapterNext]_vars

InitHelper ==
  HelperInit /\ TextIdle /\ ImageIdle /\ SessionInit /\ AdapterIdle
  /\ EvidenceIdle
  /\ RaceIdle
  /\ SequenceIdle
  /\ SaveIdle
  /\ GateIdle

SpecHelper == InitHelper /\ [][HelperNext]_vars

InitEvidence ==
  EvidenceInit /\ TextIdle /\ ImageIdle /\ SessionInit /\ AdapterIdle
  /\ HelperIdle
  /\ RaceIdle
  /\ SequenceIdle
  /\ SaveIdle
  /\ GateIdle

SpecEvidence == InitEvidence /\ [][EvidenceNext]_vars

InitRace ==
  RaceInit /\ TextIdle /\ ImageIdle /\ SessionInit /\ AdapterIdle
  /\ HelperIdle
  /\ EvidenceIdle
  /\ SequenceIdle
  /\ SaveIdle
  /\ GateIdle

SpecRace == InitRace /\ [][RaceNext]_vars

InitSequence ==
  SequenceInit
  /\ TextIdle
  /\ ImageIdle
  /\ SessionInit
  /\ AdapterIdle
  /\ HelperIdle
  /\ EvidenceIdle
  /\ RaceIdle
  /\ SaveIdle
  /\ GateIdle

SpecSequence == InitSequence /\ [][SequenceNext]_vars

InitSave ==
  SaveInit
  /\ TextIdle
  /\ ImageIdle
  /\ SessionInit
  /\ AdapterIdle
  /\ HelperIdle
  /\ EvidenceIdle
  /\ RaceIdle
  /\ SequenceIdle
  /\ GateIdle

SpecSave == InitSave /\ [][SaveNext]_vars

InitGate ==
  GateInit
  /\ TextIdle
  /\ ImageIdle
  /\ SessionInit
  /\ AdapterIdle
  /\ HelperIdle
  /\ EvidenceIdle
  /\ RaceIdle
  /\ SequenceIdle
  /\ SaveIdle

SpecGate == InitGate /\ [][GateNext]_vars

-----------------------------------------------------------------------------
(* Properties of the text pipeline *)

Failed(p) == [p |-> p, ok |-> FALSE]

Succeeded(p) == [p |-> p, ok |-> TRUE]

EnrichReturned == tpc = "done"

AllTextProvidersFailed == EnrichReturned /\ \A k \in 1..Len(calls) : ~calls[k].ok

\* C1: with order [A,B,C], B is never invoked before A failed TEXT_RETRIES times,
\* C never before B failed TEXT_RETRIES times after that, and when C succeeds on
\* its first attempt the adapter invocations are exactly TEXT_RETRIES times A,
\* TEXT_RETRIES times B, once C.
ProviderFallbackOrder ==
  LET A == providerOrder[1]
      B == providerOrder[2]
      C == providerOrder[3]
      R == TEXT_RETRIES
  IN /\ \A k \in 1..Len(calls) :
          calls[k].p = B => /\ k > R
                            /\ \A i \in 1..R : calls[i] = Failed(A)
     /\ \A k \in 1..Len(calls) :
          calls[k].p = C => /\ k > 2 * R
                            /\ \A i \in (R + 1)..(2 * R) : calls[i] = Failed(B)
     /\ (Len(calls) > 2 * R /\ calls[2 * R + 1] = Succeeded(C))
          => /\ Len(calls) = 2 * R + 1
             /\ \A i \in 1..R : calls[i] = Failed(A)
             /\ \A i \in (R + 1)..(2 * R) : calls[i] = Failed(B)

\* C1 witness: A and B failed on every attempt and C succeeded on its first
ThirdProviderSucceededFirstTry ==
  /\ tpc \in {"done", "detail"}
  /\ Len(calls) = 2 * TEXT_RETRIES + 1
  /\ calls[Len(calls)] = Succeeded(providerOrder[3])

\* C2: enrichWithAI never rejects, whatever the text and the adapter outcomes.
EnrichNeverRejects == tpc # "rejected"

\* C4: the category of the object enrichWithAI returns is one of the four
\* allowed categories, on the success, Hugging Face and degraded paths.
CategoryClosure == EnrichReturned => result.category \in AllowedSet

\* C4 witness: a free-text provider category was coerced into the closed set
FreeTextCategoryCoerced ==
  /\ EnrichReturned
  /\ provider = "Hugging Face"
  /\ calls[Len(calls)].ok
  /\ result.name = <<"x">>
  /\ result.category = <<"IPTV">>

HasKeyword(s, kw) == \E i \in 1..Len(s) : Lower(s[i]) = kw

\* the keyword rules applied to a text
KeywordRulesOn(s) ==
  IF HasKeyword(s, "ott") THEN <<"OTT", " ", "Accounts">>
  ELSE IF HasKeyword(s, "iptv") THEN <<"IPTV">>
  ELSE IF HasKeyword(s, "product") THEN <<"Product", " ", "Key">>
  ELSE <<"Download">>

\* C5: when every provider and the Hugging Face fallback yield no JSON, the
\* returned record has description = name = first line of the sanitized text (or
\* "Product"), plan and validity "unknown", no tags, no features, and the category
\* the keyword rules give for the user text.
DegradedRecordFromTextOnly ==
  AllTextProvidersFailed =>
    /\ result.description = result.name
    /\ result.name = IF FirstLine(sanitizeTextForAI(textHints)) = <<>> THEN <<"Product">>
                     ELSE FirstLine(sanitizeTextForAI(textHints))
    /\ result.plan = <<"unknown">>
    /\ result.validity = <<"unknown">>
    /\ result.tags = Arr(<<>>)
    /\ result.features = Arr(<<>>)
    /\ result.category = KeywordRulesOn(sanitizeTextForAI(textHints))

\* C5 amended: as C5, except that the category is the one the keyword rules give
\* for the record's name followed by the sanitized user text, so that an empty
\* sanitized text, whose name is the placeholder "Product", gets "Product Key".
DegradedRecordFromNameAndText ==
  AllTextProvidersFailed =>
    /\ result.description = result.name
    /\ result.name = IF FirstLine(sanitizeTextForAI(textHints)) = <<>> THEN <<"Product">>
                     ELSE FirstLine(sanitizeTextForAI(textHints))
    /\ result.plan = <<"unknown">>
    /\ result.validity = <<"unknown">>
    /\ result.tags = Arr(<<>>)
    /\ result.features = Arr(<<>>)
    /\ result.category =
         KeywordRulesOn(result.name \o <<" ">> \o sanitizeTextForAI(textHints))

\* C5 witness: the degraded record of a text that is empty once sanitized
DegradedRecordOfEmptyText ==
  /\ AllTextProvidersFailed
  /\ textHints # <<>>
  /\ sanitizeTextForAI(textHints) = <<>>
  /\ result.name = <<"Product">>
  /\ result.category = <<"Product", " ", "Key">>

\* C6: every object enrichWithAI returns has a defined category and a defined
\* subcategory.
CategoryAndSubcategoryDefined ==
  EnrichReturned => (result.category # Undef /\ result.subcategory # Undef)

\* a step that invokes a text adapter after an earlier invocation
InvokesAgain == Len(calls) > 0 /\ Len(calls') > Len(calls)

\* C19 as stated: once an attempt on a provider returns JSON that is not
\* null, no further attempt is made on that provider, no later provider is
\* invoked and the Hugging Face fallback is not invoked
StopAtFirstNonNull == [][InvokesAgain => lastAnswer = "null"]_vars

\* C19: once an attempt on a provider returns a value that is truthy (not
\* null, false, 0 or the empty string), no further attempt is made on that
\* provider, no later provider is invoked and the Hugging Face fallback is
\* not invoked
StopAtFirstTruthy == [][InvokesAgain => ~calls[Len(calls)].ok]_vars

\* the first provider of several failed once and then succeeded, and
\* enrichWithAI returned without another invocation
SecondAttemptSucceeded ==
  /\ tpc = "done"
  /\ Len(providerOrder) >= 2
  /\ calls = <<Failed(providerOrder[1]), Succeeded(providerOrder[1])>>

\* C20: the features field of every object enrichWithAI returns is a list of
\* at most 6 entries, also when the provider's response has more
FeaturesAtMostSix ==
  EnrichReturned => result.features.isArray /\ Len(result.features.v) <= 6

-----------------------------------------------------------------------------
(* Properties of the image pipeline *)

Generating == ifn = "generateBackgroundWithOrder"

NoBytes == \A k \in 1..Len(adapterCalls) : adapterCalls[k].out # "buffer"

\* generateBackgroundWithOrder ended and no adapter invocation returned bytes
GenEndedAllFailed == Generating /\ ipc \in {"done", "rejected"} /\ NoBytes

InvocationsOf(p) == Cardinality({k \in 1..Len(adapterCalls) : adapterCalls[k].p = p})

\* C7: a provider of generateBackgroundWithOrder that was abandoned for the next
\* one, having failed on every attempt by returning null or throwing, was invoked
\* IMAGE_RETRIES times.
ImageRetryBudget ==
  Generating =>
    \A i \in 1..Len(EffectiveOrder) :
      (i < iIdx /\ NoBytes) => InvocationsOf(EffectiveOrder[i]) = IMAGE_RETRIES

TierRank(t) ==
  IF ifn = "tryBrandImages"
  THEN CASE t = "og" -> 1 [] t = "logo" -> 2 [] OTHER -> 3
  ELSE IF t = "card" THEN Len(EffectiveOrder) + 1
       ELSE CHOOSE i \in 1..Len(EffectiveOrder) : EffectiveOrder[i] = t

\* C8: tiers are attempted in the order OpenGraph, logo API, image search, and
\* configured providers then card; a tier is attempted only after every earlier
\* tier produced no hosted image, and none after the first hosted URL.
ImageTierOrder ==
  /\ \A i, j \in 1..Len(tiers) : i < j => TierRank(tiers[i]) < TierRank(tiers[j])
  /\ Generating => \A k \in 1..Len(tiers) : TierRank(tiers[k]) = k
  /\ (ifn = "tryBrandImages" /\ hasDomain) => \A k \in 1..Len(tiers) : TierRank(tiers[k]) = k
  /\ \A k \in 1..Len(rehosts) :
       rehosts[k].ok => /\ rehosts[k].src = tiers[Len(tiers)]
                        /\ k = Len(rehosts)
                        /\ ipc = "done"

\* C8 witness: the logo tier hosted an image after the OpenGraph tier did not
LogoHostedAfterOpenGraph ==
  /\ ifn = "tryBrandImages"
  /\ ipc = "done"
  /\ tiers = <<"og", "logo">>
  /\ iresult # Null

\* C9 as stated: a non-null return has performed exactly one rehostToSupabase
\* call, whose result it returns.
ExactlyOneRehostCall ==
  (ipc = "done" /\ iresult # Null) => (Len(rehosts) = 1 /\ iresult = Hosted(1))

\* C9 amended: a non-null return has performed exactly one rehostToSupabase call
\* that returned; it is the last call and its result is the value returned; the
\* earlier calls, at most two and only in tryBrandImages, threw.
ExactlyOneRehostReturned ==
  (ipc = "done" /\ iresult # Null) =>
    /\ Len(rehosts) \in 1..3
    /\ rehosts[Len(rehosts)].ok
    /\ \A k \in 1..(Len(rehosts) - 1) : ~rehosts[k].ok
    /\ iresult = Hosted(Len(rehosts))
    /\ Generating => Len(rehosts) = 1

\* C9 witness: an image was hosted after an earlier upload threw
HostedAfterFailedUpload ==
  ipc = "done" /\ iresult # Null /\ Len(rehosts) = 2 /\ ~rehosts[1].ok

\* C22: an invocation of the Cloudflare adapter that the backend rejects for
\* content safety or for rate limit or quota returns null, is not retried,
\* and generateBackgroundWithOrder goes on to the next provider of the order
\* (to the card after the last) without rejecting
CloudflareSoftFailureMovesOn ==
  /\ \A k \in 1..Len(adapterCalls) :
       adapterCalls[k].soft => adapterCalls[k].out = "null"
  /\ (adapterCalls # <<>> /\ adapterCalls[Len(adapterCalls)].soft) =>
       /\ ipc = IF iIdx <= Len(EffectiveOrder) THEN "gen" ELSE "card"
       /\ iAttempt = 0
       /\ iIdx > 1
       /\ EffectiveOrder[iIdx - 1] = "cloudflare"

\* Cloudflare, first in the order, rejected the request softly and the second
\* provider is next
SoftRejectionThenNextProvider ==
  /\ Generating
  /\ Len(adapterCalls) = 1
  /\ adapterCalls[1].soft
  /\ ipc = "gen"
  /\ iIdx = 2

-----------------------------------------------------------------------------
(* Properties of the session *)

\* a draft created by /smartadd rather than loaded by /update
AddFlow == session.review # Null /\ ~session.review.updateId

\* C10: in every session state of an add flow, review.prod.image is null or a URL
\* rehostToSupabase returned, never a Telegram file URL, an operator-supplied URL
\* or a third-party URL.
DurableImage ==
  AddFlow => \/ session.review.prod.image = Null
             \/ session.review.prod.image.kind = "hosted"

\* C10 witness: an add flow whose image is the rehosted copy of a URL the
\* operator sent
OperatorUrlRehosted ==
  AddFlow /\ session.review.prod.image = Rehosted("operator")

\* a save that wrote the draft to the database
SavedDraft == reply = "what next" /\ db # <<>>

\* C21: after a successful save, after cancel and after a session reset
\* (start, Done) session.review is null, and a save that finds no review
\* makes no database request
DraftLifetime ==
  [][/\ (start \/ again_done \/ cancel) => session'.review = Null
     /\ SavedDraft' => session'.review = Null
     /\ (save /\ session.review = Null) => db' = <<>>]_vars

\* a draft was saved and the session holds it no longer
DraftSavedAndGone ==
  /\ SavedDraft
  /\ db = <<"select", "insert">>
  /\ session.review = Null

-----------------------------------------------------------------------------
(* Properties of the text adapters *)

TextAdapterRunning ==
  adapter \in {"pollinations", "groq", "gemini", "other", "huggingface"}

\* C11: every text adapter returns a parsed JSON value or null for every backend
\* outcome and never throws to its caller.
TextAdaptersNeverThrow ==
  TextAdapterRunning =>
    /\ apc # "threw"
    /\ ~aresult.threw
    /\ apc = "returned" => aresult.value \in JsonValues
    /\ (apc = "returned" /\ backend.net \in {"exception", "http error", "bad body"})
         => aresult.value = Null

\* C11 witness: the backend answered prose, JSON.parse threw inside the adapter,
\* and the adapter returned null
UnparsableContentGaveNull ==
  /\ apc = "returned"
  /\ adapter = "pollinations"
  /\ backend.net = "ok"
  /\ ~backend.content.empty
  /\ backend.content.whole = SyntaxError
  /\ backend.content.braces = NoMatch
  /\ aresult = Ret(Null)

\* the key failed: network error, non-2xx status, empty text, or text that
\* is not JSON
KeyFailed(b) == b.net # "ok" \/ b.content.empty \/ b.content.whole = SyntaxError

\* the key's answer is the JSON value null
AnsweredJsonNull(b) == ~KeyFailed(b) /\ b.content.whole = Null

\* the requests of a geminiTextJSON call: at most one per key, each with a
\* different key, in round-robin order from the key after the last one used
\* by the previous call; a key that fails does not end the call
GeminiRoundRobin ==
  /\ Len(keysUsed) <= geminiKeys
  /\ \A i, j \in 1..Len(keysUsed) : i # j => keysUsed[i] # keysUsed[j]
  /\ \A i \in 1..(Len(keysUsed) - 1) :
       keysUsed[i + 1] = (keysUsed[i] + 1) % geminiKeys
  /\ (keysUsed # <<>> /\ prevKey # -1) =>
       keysUsed[1] = (prevKey + 1) % geminiKeys
  /\ (apc = "returned" /\ keysUsed # <<>> /\ Len(keysUsed) < geminiKeys) =>
       ~KeyFailed(backend)

GeminiReturnedNull ==
  adapter = "gemini" /\ apc = "returned" /\ aresult.value = Null

\* C23 as stated: a geminiTextJSON call with N keys issues at most N requests,
\* each with a distinct key, round-robin from the key after the previous
\* call's last; a failing key is skipped; null is returned only after all N
\* keys have failed
GeminiNullOnlyAfterAllKeys ==
  adapter = "gemini" =>
    /\ GeminiRoundRobin
    /\ GeminiReturnedNull =>
         /\ Len(keysUsed) = geminiKeys
         /\ keysUsed # <<>> => KeyFailed(backend)

\* C23: as above, but null is returned after all N keys have failed or as
\* soon as a key's answer is the JSON value null
GeminiNullAfterAllKeysOrJsonNull ==
  adapter = "gemini" =>
    /\ GeminiRoundRobin
    /\ GeminiReturnedNull =>
         \/ Len(keysUsed) = geminiKeys /\ (keysUsed # <<>> => KeyFailed(backend))
         \/ keysUsed # <<>> /\ AnsweredJsonNull(backend)

\* a second call of the run started at the key after the first call's last,
\* skipped a failing key and returned null after both keys failed
SecondCallTriedBothKeys ==
  /\ GeminiReturnedNull
  /\ geminiKeys = 2
  /\ prevKey # -1
  /\ keysUsed = <<(prevKey + 1) % 2, prevKey>>
  /\ KeyFailed(backend)

-----------------------------------------------------------------------------
(* Properties of the image adapters *)

ImageAdapterRunning == adapter \in {ImageLabel(p) : p \in ImageProviders}

CloudflareHardFailure ==
  /\ adapter = "image:cloudflare"
  /\ backend.creds
  /\ \/ backend.net = "exception"
     \/ backend.net = "http error" /\ backend.body = "other"
     \/ backend.net = "ok" /\ backend.body \in {"not json", "json failure"}

-----------------------------------------------------------------------------
(* Properties of the helper functions *)

\* trim and lower-case a tag
TagKey(t) == [i \in 1..Len(Trim(t)) |-> Lower(Trim(t)[i])]

\* C13: uniqMerge keeps the first-seen spelling of each tag and removes
\* duplicates up to case and surrounding whitespace: no two entries of the
\* result are equal after trimming and lower-casing, no entry is empty, and
\* uniqMerge(["Spotify"," spotify","Music"], ["music","Plan"]) is
\* ["Spotify","Music","Plan"]
UniqMergeCaseInsensitive ==
  fn = "uniqMerge" =>
    /\ \A i, j \in 1..Len(ret) : i # j => TagKey(ret[i]) # TagKey(ret[j])
    /\ \A i \in 1..Len(ret) : ret[i] # <<>>
    /\ args = <<SpotifyTags, MusicTags>> =>
         ret = <<Str("Spotify"), Str("Music"), Str("Plan")>>

\* the first numeric token of s: from its first digit, as far as digits,
\* commas and dots go
NumericTokens(s) ==
  {<<i, j>> \in (1..Len(s)) \X (1..Len(s)) :
     /\ i <= j
     /\ s[i] \in DigitChars
     /\ \A k \in 1..(i - 1) : s[k] \notin DigitChars
     /\ \A k \in i..j : s[k] \in DigitChars \cup {",", "."}
     /\ j < Len(s) => s[j + 1] \notin DigitChars \cup {",", "."}}

\* r is the integer nearest to the decimal numeral t (digits with at most
\* one dot), a half counting upwards
NearestInteger(t, r) ==
  LET dots == {k \in 1..Len(t) : t[k] = "."}
      f == IF dots = {} THEN 0 ELSE Len(t) - (CHOOSE k \in dots : TRUE)
      ds == SelectSeq(t, LAMBDA c : c # ".")
      n == DigitsValue(ds)
      d == Pow10(f)
  IN /\ 2 * (r * d - n) <= d
     /\ 2 * (n - r * d) < d

\* C14: parsePrice returns null exactly when its input is empty or holds no
\* digit; otherwise it returns a non-negative integer, the integer nearest
\* to the first numeric token read without its commas (for a token with at
\* most one dot); "R1,299.50 for 1 year" gives 1300 and "free" gives null
ParsePriceRoundsFirstToken ==
  fn = "parsePrice" =>
    LET raw == args[1]
        toks == IF raw = Undef THEN {} ELSE NumericTokens(raw)
    IN /\ (ret = Null) <=> (toks = {})
       /\ ret # Null => ret.n \in Nat
       /\ \A ij \in toks :
            LET t == SelectSeq(SubSeq(raw, ij[1], ij[2]), LAMBDA c : c # ",")
            IN Cardinality({k \in 1..Len(t) : t[k] = "."}) <= 1
                 => NearestInteger(t, ret.n)
       /\ raw = RupeePrice => ret = Number(1300)
       /\ raw = FreePrice => ret = Null

\* a price with a thousands separator and a half was rounded up
PriceWithSeparatorRounded ==
  /\ fn = "parsePrice"
  /\ args[1] = <<"1", ",", "5", ".", "5">>
  /\ ret = Number(16)

\* the distance of host h from the product name
HostDistance(name, h) == levenshtein(AlnumLower(name), AlnumLower(stripTLD(h)))

\* C16: the official host is the first of the result hosts at the minimum
\* Levenshtein distance between its TLD-stripped, alphanumeric, lower-cased
\* label and the alphanumeric, lower-cased product name; the product paths
\* are added exactly when that distance is at most 3; of netflix.com,
\* netflix-blog.example and unrelated.org, "Netflix" selects netflix.com at
\* distance 0
OfficialHostIsFirstNearest ==
  fn = "officialHost" =>
    LET name == args[1]
        hosts == args[2]
    IN /\ hosts = <<>> => ret.bestHost = <<>> /\ ~ret.paths
       /\ hosts # <<>> =>
            \E i \in 1..Len(hosts) :
              /\ ret.bestHost = hosts[i]
              /\ ret.bestScore = HostDistance(name, hosts[i])
              /\ \A j \in 1..Len(hosts) :
                   HostDistance(name, hosts[j]) >= ret.bestScore
              /\ \A j \in 1..(i - 1) :
                   HostDistance(name, hosts[j]) > ret.bestScore
              /\ ret.paths <=> ret.bestScore <= 3
       /\ (name = Netflix /\ hosts = <<NetflixCom, NetflixBlog, UnrelatedOrg>>)
            => ret = [bestHost |-> NetflixCom, bestScore |-> 0, paths |-> TRUE]
       /\ (name = Netflix /\ hosts = <<NetflixBlog, UnrelatedOrg>>)
            => ret = [bestHost |-> NetflixBlog, bestScore |-> 4,
                      paths |-> FALSE]

\* two hosts at the same minimum distance: the first was chosen
FirstOfTiedHostsChosen ==
  /\ fn = "officialHost"
  /\ args = <<Netflix, <<UnrelatedOrg, NetflixNet, NetflixCom>>>>
  /\ ret.bestHost = NetflixNet
  /\ ret.paths

\* the names of a comma-separated list: its tokens that are neither a comma
\* nor whitespace, in order
NamesOf(env) == SelectSeq(env, LAMBDA t : t \notin WS \cup {","})

\* C18: the provider order is the explicit array when that is a non-empty
\* array; otherwise the names of TEXT_PROVIDER_ORDER, trimmed and without
\* empty entries, when that is set; otherwise groq, gemini, pollinations
ProviderOrderPrecedence ==
  fn = "resolveProviderOrder" =>
    LET param == args[1]
        env == args[2]
        explicit == param.kind = "array" /\ param.items # <<>>
        configured == env # Undef /\ env # <<>>
    IN /\ explicit => ret = param.items
       /\ (~explicit /\ configured) =>
            /\ \A i \in 1..Len(ret) :
                 /\ ret[i] # <<>>
                 /\ ret[i] = Trim(ret[i])
                 /\ "," \notin {ret[i][k] : k \in 1..Len(ret[i])}
            /\ NamesOf(Concat(ret)) = NamesOf(env)
            /\ env = <<" ", ",", "groq", ",">> => ret = <<Str("groq")>>
            /\ env = <<"gemini", ",", " ", "groq">>
                 => ret = <<Str("gemini"), Str("groq")>>
       /\ (~explicit /\ ~configured) => ret = DefaultTextOrder

\* an explicit order won over a configured one
ExplicitOrderOverConfigured ==
  /\ fn = "resolveProviderOrder"
  /\ args = <<OrderArray(<<Str("pollinations")>>), <<"gemini", ",", "groq">>>>
  /\ ret = <<Str("pollinations")>>

\* C17: two calls of enrichWithAI with the same inputs, the same provider
\* responses and the same configuration return the same category and tags,
\* whatever rotation index of the Gemini keys each call starts from
ReEnrichmentDeterministic ==
  fn = "enrichWithAI" => ret[1] = ret[2]

\* the two calls started from different keys, the first call's first key was
\* not usable, and both returned an object
RotatedCallsEnriched ==
  /\ fn = "enrichWithAI"
  /\ args.n = 2
  /\ args.first % 2 # args.second % 2
  /\ ~args.usable[args.first % 2]
  /\ ret[1].kind = "enriched"
  /\ ret[2].kind = "enriched"

-----------------------------------------------------------------------------
(* Properties of searchWebForProduct *)

\* C15: the string searchWebForProduct returns is at most 20,000 characters
\* long, whatever the pages and the encyclopedia extract, also when the
\* encyclopedia block is appended to the sliced page bundle
EvidenceBound == wpc = "returned" => bundle <= BundleMax

\* the encyclopedia block, at its longest, was appended to a bundle of pages
WikiAppendedToPages ==
  /\ wpc = "returned"
  /\ wikiUsed
  /\ count > 0
  /\ bundle > WikiExtractMax + chunksLen

-----------------------------------------------------------------------------
(* Properties of generateBackgroundWithOrder when the storage fails *)

\* the k-th rehostToSupabase call was given a generative provider's bytes and
\* threw
GeneratedBytesNotStored(k) ==
  /\ Generating
  /\ k \in 1..Len(rehosts)
  /\ rehosts[k].src \in ImageProviders
  /\ ~rehosts[k].ok

\* C28: when a generative provider returned bytes and rehostToSupabase threw,
\* generateBackgroundWithOrder rejects: no later provider and no procedural
\* card is tried, and nothing is returned
StorageFailureRejects ==
  \A k \in 1..Len(rehosts) :
    GeneratedBytesNotStored(k) =>
      /\ ipc = "rejected"
      /\ iresult = Null
      /\ k = Len(rehosts)
      /\ tiers[Len(tiers)] = rehosts[k].src
      /\ adapterCalls[Len(adapterCalls)].p = rehosts[k].src
      /\ adapterCalls[Len(adapterCalls)].out = "buffer"
      /\ card = "none"

\* the second provider of the order gave bytes that could not be stored
SecondProviderBytesNotStored ==
  /\ GeneratedBytesNotStored(1)
  /\ Len(tiers) = 2
  /\ Len(EffectiveOrder) > 2
  /\ ipc = "rejected"

-----------------------------------------------------------------------------
(* Properties of the page loop of searchWebForProduct *)

\* C29: one searchWebForProduct call invokes fetchWebsiteRaw on at most 12
\* candidate URLs, however many there are and however many yield too little
\* text
FetchCap == fetches <= 12

-----------------------------------------------------------------------------
(* Properties of fetchWebsiteRaw *)

\* the direct request threw, was non-2xx, or gave cleaned text of 200
\* characters or fewer
DirectFailed(direct) == direct.net # "ok" \/ direct.cleaned <= 200

\* the same of the request through the proxy, whose text is its body
ProxyFailed(proxy) == proxy.net # "ok" \/ proxy.html <= 200

\* C30: fetchWebsiteRaw issues at most two requests; the proxy request only
\* when the direct one failed; a text is accepted only if longer than 200
\* characters; when both fail the result is the empty page and nothing throws
FetchFallbackProtocol ==
  fn = "fetchWebsiteRaw" =>
    /\ Len(ret.requests) <= 2
    /\ (\E k \in 1..Len(ret.requests) : ret.requests[k] = "proxy") =>
         /\ ret.requests = <<"direct", "proxy">>
         /\ DirectFailed(args[2])
    /\ ret.page # [html |-> 0, text |-> 0] => ret.page.text > 200
    /\ ~ret.threw
    /\ (DirectFailed(args[2]) /\ ProxyFailed(args[3])) =>
         ret.page = [html |-> 0, text |-> 0]

\* the direct request gave exactly 200 characters of text and the proxy a
\* longer one, which was accepted
ProxyTextAccepted ==
  /\ fn = "fetchWebsiteRaw"
  /\ args[2].net = "ok"
  /\ args[2].cleaned = 200
  /\ ret.requests = <<"direct", "proxy">>
  /\ ret.page.text > 200

\* C31: no failing network step makes searchWebForProduct reject or keeps
\* the later steps from running, and when every step failed the result is the
\* empty string
BestEffortSteps ==
  /\ wpc # "rejected"
  /\ wpc \in {"searchLite", "fetching", "wiki", "returned"} =>
       steps["html"] # "none"
  /\ wpc \in {"fetching", "wiki", "returned"} => steps["lite"] # "none"
  /\ wpc \in {"wiki", "returned"} => (urlsLeft = 0 \/ count >= 12)
  /\ (wpc = "returned" /\ chunksLen < 800) => steps["wikiSearch"] # "none"
  /\ (wpc = "returned" /\ steps["wikiSearch"] = "ok") =>
       steps["wikiExtract"] # "none"
  /\ (wpc = "returned" /\ \A k \in NetworkSteps : steps[k] # "ok") =>
       bundle = 0

\* the first search failed, and the second search, the pages and the
\* encyclopedia were still asked
LaterStepsRanAfterFailedSearch ==
  /\ wpc = "returned"
  /\ steps["html"] = "failed"
  /\ steps["lite"] = "ok"
  /\ steps["page"] = "failed"
  /\ steps["wikiSearch"] = "ok"
  /\ bundle > 0

-----------------------------------------------------------------------------
(* Properties of tryWithRetries inside runTextProvidersWithOrder *)

\* the 0-based attempt number of the k-th adapter invocation on its provider
AttemptIndexOf(k) ==
  Cardinality({j \in 1..(k - 1) : calls[j].p = calls[k].p})

\* the k-th wait is followed by another attempt on the provider that failed
WaitIsBetweenAttempts(k) ==
  IF k < Len(calls) THEN calls[k + 1].p = calls[k].p
  ELSE tpc = "run" /\ providerOrder[pIdx] = calls[k].p

\* C32: the wait after failed attempt i is baseDelay * 2^i, a wait occurs only
\* between two attempts on the same provider, and no provider is invoked more
\* than the configured number of attempts
BackoffSchedule ==
  /\ Len(sleeps) <= Len(calls)
  /\ \A k \in 1..Len(sleeps) :
       /\ k <= Len(calls)
       /\ sleeps[k] = 800 * Pow2(AttemptIndexOf(k))
       /\ WaitIsBetweenAttempts(k)
  /\ \A k \in 1..Len(calls) : AttemptIndexOf(k) < TEXT_RETRIES

-----------------------------------------------------------------------------
(* Properties of the provider loops, call by call *)

\* C33: within one enrichWithAI or generateBackgroundWithOrder run at most
\* one provider call is in flight at any time
OneCallInFlight == Cardinality(inFlight) <= 1

\* a second attempt is in flight after the first one has completed
SecondCallAlone ==
  /\ started = 2
  /\ inFlight = {2}
  /\ seqAttempt = 1

-----------------------------------------------------------------------------
(* Properties of the Hugging Face fallback of enrichWithAI *)

\* the providers of the resolved order
OrderProviders == {providerOrder[i] : i \in 1..Len(providerOrder)}

\* the invocations before the k-th that were made on provider p
EarlierCallsOn(p, k) == {j \in 1..(k - 1) : calls[j].p = p}

\* enrichWithAI returned the record it builds from the text alone
DegradedRecordBuilt == tpc = "done" /\ json = Null /\ result # Null

\* C34: generateTextFromHuggingFace is invoked only after every provider of
\* the order used up its retries without JSON, at most once per call, and
\* the degraded record is built only after it returned no JSON either
HuggingFaceIsLastResort ==
  /\ \A k \in 1..Len(calls) :
       calls[k].p = "Hugging Face" =>
         /\ k = Len(calls)
         /\ \A j \in 1..(k - 1) : ~calls[j].ok /\ calls[j].p \in OrderProviders
         /\ \A p \in OrderProviders :
              Cardinality(EarlierCallsOn(p, k)) = TEXT_RETRIES
  /\ DegradedRecordBuilt =>
       /\ Len(calls) > 0
       /\ calls[Len(calls)] = [p |-> "Hugging Face", ok |-> FALSE]

\* every provider failed on every attempt, the fallback gave no JSON either,
\* and the degraded record was returned
FallbackFailedToo ==
  /\ DegradedRecordBuilt
  /\ Len(calls) = Len(providerOrder) * TEXT_RETRIES + 1

-----------------------------------------------------------------------------
(* Properties of concurrent save actions *)

\* C35: save never inserts a row when the table already holds a row with the
\* same name and price, also when two saves of one review interleave
SaveNeverDuplicates == [][rows' > rows => rows = 0]_vars

-----------------------------------------------------------------------------
(* Properties of the session across handlers *)

\* C36: in every reachable session state, await being edit_all or
\* image_choice implies that the session holds a review
AwaitImpliesReview ==
  session.await \in {"edit_all", "image_choice"} => session.review # Null

-----------------------------------------------------------------------------
(* Properties of the admin gate and of the idle pause *)

\* a step that processes an update
UpdateStep == updates' # updates

\* C37: an update whose sender is not in ADMIN_IDS reaches no handler and
\* changes neither a session nor a timer
AdminGate ==
  [][(UpdateStep /\ handled'.sender \notin {1, 2}) =>
       /\ ~handled'.next
       /\ UNCHANGED <<sessions, idleTimers, pending, timerCount>>]_vars

\* an admin was served, and then a stranger's update went nowhere
StrangerIgnoredAfterAdmin ==
  /\ updates = 2
  /\ handled = [sender |-> 3, kind |-> "message", next |-> FALSE]
  /\ sessions[1] = "running"
  /\ sessions[3] = "none"

\* the timeouts pending for user u
PendingOf(u) == {t \in pending : t.user = u}

\* C38: at most one inactivity timer is pending per user; paused is set only
\* by the timer of the user's latest processed update; while paused another
\* callback query is dropped and leaves the session alone, and a message or
\* resume_bot clears paused
IdlePause ==
  /\ [](\A u \in Senders : Cardinality(PendingOf(u)) <= 1)
  /\ [][/\ \A u \in Senders :
             (sessions'[u] = "paused" /\ sessions[u] # "paused") =>
               fired' = idleTimers[u]
        /\ (UpdateStep /\ sessions[handled'.sender] = "paused") =>
             /\ handled'.kind = "callback" =>
                  ~handled'.next /\ UNCHANGED <<sessions, pending>>
             /\ handled'.kind \in {"message", "resume_bot"} =>
                  handled'.next /\ sessions'[handled'.sender] = "running"]_vars

\* a user was paused by the timer and resumed with a message, which set the
\* one timer now pending
ResumedByMessage ==
  /\ fired # 0
  /\ handled = [sender |-> 1, kind |-> "message", next |-> TRUE]
  /\ sessions[1] = "running"
  /\ Cardinality(PendingOf(1)) = 1
  /\ updates = 2

-----------------------------------------------------------------------------
(* Termination of enrichWithAI *)

\* the invocations made so far on the providers of the order
ProviderCalls == {k \in 1..Len(calls) : calls[k].p # "Hugging Face"}

\* the invocations of the Hugging Face fallback
FallbackCalls == {k \in 1..Len(calls) : calls[k].p = "Hugging Face"}

\* C39: when every outbound call returns, enrichWithAI eventually resolves,
\* after at most len(order) * TEXT_RETRIES provider invocations, one Hugging
\* Face call and one detail request
EnrichTerminates ==
  /\ <>(tpc = "done" /\ result # Null)
  /\ [](/\ Cardinality(ProviderCalls) <= Len(providerOrder) * TEXT_RETRIES
        /\ Cardinality(FallbackCalls) <= 1
        /\ detailCalls <= 1)

-----------------------------------------------------------------------------
(* Properties of the retry settings *)

\* C40: for every value of the TEXT_RETRIES and IMAGE_RETRIES settings the
\* effective retry count is an integer of at least 1, so a provider that is
\* reached is invoked at least once
RetryCountFloor ==
  fn = "retriesSetting" =>
    /\ ~ret.attempts.nan
    /\ ret.attempts.n >= 1
    /\ ret.turns >= 1

-----------------------------------------------------------------------------
(* Properties of the detail pass of enrichWithAI *)

\* the description is missing or shorter than 150 characters, or there are
\* fewer than 3 features
ThinOutput(j) ==
  \/ j.description = Undef
  \/ j.description = <<>>
  \/ StrLen(j.description) < 150
  \/ Len(j.features.v) < 3

\* a step in which enrichWithAI obtains structured output and goes on with it
ObtainsOutput == json = Null /\ json' # Null /\ tpc' \in {"detail", "done"}

\* the detail request is issued at most once, and only from the detail pass
DetailRequestOnlyInDetailPass ==
  detailCalls' # detailCalls =>
    tpc = "detail" /\ detailCalls = 0 /\ detailCalls' = 1 /\ tpc' = "done"

\* C25 (as stated): once structured output was obtained, the detail request
\* is issued exactly once when the output is thin and the evidence is longer
\* than 400 characters, whichever provider supplied it, and never otherwise
DetailPassWhicheverProvider ==
  [][/\ ObtainsOutput =>
          ((tpc' = "detail") <=> (ThinOutput(json') /\ combinedLen > 400))
     /\ DetailRequestOnlyInDetailPass]_vars

\* C25 (amended): the same, except that output supplied by the Hugging Face
\* fallback never gets a detail request
DetailPassUnlessHuggingFace ==
  [][/\ ObtainsOutput =>
          ((tpc' = "detail") <=>
             (ThinOutput(json') /\ combinedLen > 400
              /\ provider' # "Hugging Face"))
     /\ DetailRequestOnlyInDetailPass]_vars

\* thin output with long evidence got its one detail request
ThinOutputRefinedOnce ==
  /\ tpc = "done"
  /\ detailCalls = 1
  /\ combinedLen > 400
  /\ provider # "Hugging Face"

\* the length of a description, 0 when it is missing
DescriptionLength(j) == IF Truthy(j.description) THEN StrLen(j.description) ELSE 0

\* C26: the detail pass replaces the description only with a strictly longer
\* one and the features only with a list of more entries; otherwise both are
\* left unchanged
DetailMergeOnlyLonger ==
  [][tpc = "detail" =>
       /\ json'.description # json.description =>
            DescriptionLength(json') > DescriptionLength(json)
       /\ json'.features # json.features =>
            Len(json'.features.v) > Len(json.features.v)]_vars

\* the trimmed non-empty pieces of a string delimited by commas or semicolons
Pieces(str) == SelectSeq(MapTrim(SplitOn(str, {";", ","})), NonEmpty)

\* C27: after the coercion tags and features are arrays, and a tags or
\* features value the provider gave as one delimited string has become the
\* array of its trimmed non-empty pieces
StringsSplitIntoArrays ==
  fn = "Coerce" =>
    /\ ret.tags.isArray
    /\ ret.features.isArray
    /\ (~args[1].tags.isArray /\ Truthy(args[1].tags.v)) =>
         ret.tags.v = Pieces(args[1].tags.v)
    /\ (~args[1].features.isArray /\ Truthy(args[1].features.v)) =>
         ret.features.v = Pieces(args[1].features.v)

-----------------------------------------------------------------------------
(* Properties of concurrent geminiTextJSON calls *)

\* C24: when geminiTextJSON calls interleave, a call that returns null has
\* tried every key of the pool
RacingCallTriesEveryKey ==
  \A c \in GeminiCalls :
    cresult[c] = "null" => ctried[c] = 0..(poolSize - 1)

=============================================================================
